---- MODULE Spec2Model ----
(***************************************************************************)
(* Model of the memora note store (src/services/dbService.ts) and of the   *)
(* AI provider dispatcher (AIService in                                     *)
(* src/services/ai/providers/ChatGPTProvider.ts).                           *)
(*                                                                         *)
(* The store is four families of Firestore collections:                    *)
(*   users/{u}/categories, users/{u}/notes      (private, per user)        *)
(*   public/data/categories, public/data/notes  (public)                   *)
(* A collection is a set of documents; a document is a record that carries *)
(* its id beside its fields.  A field the code leaves undefined (and       *)
(* removeUndefined strips) holds Undef, or NoTime for a timestamp.         *)
(*                                                                         *)
(* Every exported store function is one call.  A call that awaits one      *)
(* write is one step; toggleNotePublish and toggleCategoryPublish await    *)
(* several writes in sequence, so they take one step per awaited write and *)
(* may fail (the awaited promise rejects) between any two of them.  One    *)
(* call runs at a time, as in a single session.                            *)
(*                                                                         *)
(* The profile functions (src/functions/lib/index.js) and the session of   *)
(* AuthenticatedApp and GuestApp (src/App.tsx: the in-memory arrays, the   *)
(* view routing and the handlers that call the store) have specifications  *)
(* of their own over the same variables, and so has the note viewer        *)
(* (NoteViewer in src/services/ai/providers/FirebaseGeminiProvider.ts: the *)
(* editable content, the debounce timer and the highlight saves in         *)
(* flight).                                                                *)
(***************************************************************************)
EXTENDS Integers, FiniteSets, Sequences, TLC

\* ---------------------------------------------------------------- bounds
\* number of store calls in one behaviour, counted from the initial store
MaxCalls == 2

\* ------------------------------------------------------------ value sets
Users == {"u1", "u2"}

\* the users whose session holds isAdmin = true (AuthContext); the store is
\* handed it as an argument
Admins == {"u1"}
IsAdmin(u) == u \in Admins

Undef == "undef"
NoTime == 0
NoId == 0

\* what the note editor hands to saveNote for a new note (with images) and
\* for an edited one (images removed, so images and imageUrl undefined)
NewNotePayloads ==
  { [title |-> "t1", content |-> "c1", imageUrl |-> "img1", images |-> "img1,img2", tags |-> "tagA"] }
EditedNotePayloads ==
  { [title |-> "t2", content |-> "c2", imageUrl |-> Undef, images |-> Undef, tags |-> "tagB"] }

\* what the category editor hands to addCategory and to updateCategory
NewCategoryPayloads == { [name |-> "n1", color |-> "red", icon |-> "book"] }
EditedCategoryPayloads == { [name |-> "n2", color |-> "blue", icon |-> "star"] }

\* a note-shaped value standing for "no note"
NoNote ==
  [id |-> NoId, categoryId |-> NoId, title |-> Undef, content |-> Undef,
   imageUrl |-> Undef, images |-> Undef, tags |-> Undef,
   createdAt |-> NoTime, updatedAt |-> NoTime, ownerId |-> Undef, isPublic |-> FALSE]

\* a category-shaped value standing for "no category"
NoCategory ==
  [id |-> NoId, name |-> Undef, color |-> Undef, icon |-> Undef,
   ownerId |-> Undef, isPublic |-> FALSE, createdAt |-> NoTime]

\* ----------------------------------------------------------------- state
VARIABLES
  db,       \* the four collection families
  nextId,   \* the next identifier addDoc hands out
  now,      \* the last value Date.now() returned
  calls,    \* how many store calls have begun
  call,     \* the call in flight, or the last call that ended (pc = "idle")
  providers,          \* AIService.providers: the registered providers, in insertion order
  preferredProvider,  \* AIService.preferredProvider
  ai,                 \* the last AIService.enhance call and what it caused
  profiles,           \* the users/{uid} profile documents
  claims,             \* the admin custom claim of each account
  fn,                 \* per account: the callable in flight, or the last that ended
  serverTime,         \* the last timestamp a profile write was given
  invocations,        \* how many profile functions have been invoked
  setupSuccesses,     \* how many setupInitialAdmin calls have returned success
  created,            \* per account: the onUserProfileCreated event of its profile
  user,               \* the session's user: Undef before the app has mounted
  view,               \* AuthenticatedApp / GuestApp state: the view shown
  activeCategoryId,   \* the category selected, NoId for null
  activeNote,         \* the note open in viewer or editor, NoNote for undefined
  notes,              \* the in-memory notes, an array
  categories,         \* the in-memory categories, an array
  isLoadingData,      \* the load step has not completed
  handled,            \* how many handlers that call the store have run
  handler,            \* the last handler that ran and what it started from
  timeouts,           \* the views that pending setTimeout callbacks of handleSaveNote will show
  editorCreates,      \* how many notes the mounted NoteEditor has created
  innerHTML,          \* NoteViewer: contentRef.current.innerHTML, and the note it was initialised from
  hasChanges,         \* NoteViewer: hasChangesRef.current
  saveTimeout,        \* NoteViewer: the pending debounce timer and what its callback closes over
  saves,              \* NoteViewer: the onSaveHighlights calls in flight, oldest first
  edits,              \* the highlight edits made: the note shown and the content it was given
  written             \* the highlight saves that have ended: the id, the content and the outcome

storeVars == <<db, nextId, now, calls, call>>
aiVars == <<providers, preferredProvider, ai>>
adminVars == <<profiles, claims, fn, serverTime, invocations, setupSuccesses, created>>
appVars == <<user, view, activeCategoryId, activeNote, notes, categories,
            isLoadingData, handled, handler, timeouts, editorCreates>>
viewerVars == <<innerHTML, hasChanges, saveTimeout, saves, edits, written>>
vars == <<db, nextId, now, calls, call, providers, preferredProvider, ai,
          profiles, claims, fn, serverTime, invocations, setupSuccesses, created,
          user, view, activeCategoryId, activeNote, notes, categories,
          isLoadingData, handled, handler, timeouts, editorCreates,
          innerHTML, hasChanges, saveTimeout, saves, edits, written>>

EmptyDb ==
  [publicCategories |-> {}, publicNotes |-> {},
   userCategories |-> [u \in Users |-> {}], userNotes |-> [u \in Users |-> {}]]

\* ------------------------------------------------ Firestore primitives
\* the ids of the documents of a collection
Ids(coll) == {d.id : d \in coll}

\* getDoc / doc(...): the document with this id in the collection
DocOf(coll, id) == CHOOSE d \in coll : d.id = id

\* addDoc: a new document under a fresh id
AddDoc(coll, id, data) == coll \cup {[data EXCEPT !.id = id]}

\* deleteDoc: removes the document; deleting an absent document succeeds
DeleteDoc(coll, id) == {d \in coll : d.id # id}

\* updateDoc(ref, data) after removeUndefined: a field that data leaves
\* undefined keeps its stored value
MergeNote(old, data) ==
  [id |-> old.id,
   categoryId |-> IF data.categoryId # NoId THEN data.categoryId ELSE old.categoryId,
   title |-> IF data.title # Undef THEN data.title ELSE old.title,
   content |-> IF data.content # Undef THEN data.content ELSE old.content,
   imageUrl |-> IF data.imageUrl # Undef THEN data.imageUrl ELSE old.imageUrl,
   images |-> IF data.images # Undef THEN data.images ELSE old.images,
   tags |-> IF data.tags # Undef THEN data.tags ELSE old.tags,
   createdAt |-> IF data.createdAt # NoTime THEN data.createdAt ELSE old.createdAt,
   updatedAt |-> IF data.updatedAt # NoTime THEN data.updatedAt ELSE old.updatedAt,
   ownerId |-> IF data.ownerId # Undef THEN data.ownerId ELSE old.ownerId,
   isPublic |-> data.isPublic]

UpdateNoteDoc(coll, id, data) ==
  {IF d.id = id THEN MergeNote(d, data) ELSE d : d \in coll}

\* ---------------------------------------------------------- read paths
\* fetchCategories: public first, then the user's private ones, each tagged
\* with the partition it was read from
FetchCategories(u) ==
  {[c EXCEPT !.isPublic = TRUE] : c \in db.publicCategories}
    \cup {[c EXCEPT !.isPublic = FALSE] : c \in db.userCategories[u]}

FetchNotes(u) ==
  {[n EXCEPT !.isPublic = TRUE] : n \in db.publicNotes}
    \cup {[n EXCEPT !.isPublic = FALSE] : n \in db.userNotes[u]}

\* ------------------------------------------------------ call bookkeeping
\* what a call remembers of the call before it: nothing, unless stated
NoCall ==
  [op |-> "none", status |-> "ok", userId |-> Undef,
   fromCatId |-> NoId, toCatId |-> NoId, categoryId |-> NoId, makePublic |-> FALSE,
   pre |-> EmptyDb]

\* The record of a call: its arguments, where it stands (pc), what it has
\* returned or thrown (status), and the store as it was when the call began.
IdleCall ==
  [op |-> "none", pc |-> "idle", status |-> "ok",
   userId |-> Undef, isAdmin |-> FALSE, categoryIsPublic |-> FALSE, makePublic |-> FALSE,
   note |-> NoNote, category |-> NoCategory, fromCatId |-> NoId, toCatId |-> NoId,
   newId |-> NoId, isPublic |-> FALSE, migratedNoteIds |-> {},
   docs |-> {}, cur |-> NoNote, after |-> NoCall, pre |-> EmptyDb]

Idle == call.pc = "idle"

\* a new call may begin when none is in flight
CanCall == Idle /\ calls < MaxCalls

\* -------------------------------------------------------------- categories
\* the store after addCategory's addDoc: always private, owned by the caller
AddCategoryDb(d, u, p, id, t) ==
  [d EXCEPT !.userCategories[u] =
     AddDoc(@, id, [id |-> id, name |-> p.name, color |-> p.color, icon |-> p.icon,
                    ownerId |-> u, isPublic |-> FALSE, createdAt |-> t])]

\* addCategory(userId, category)
AddCategory(u, p) ==
  /\ CanCall
  /\ calls' = calls + 1
  /\ now' = now + 1
  /\ nextId' = nextId + 1
  /\ db' = AddCategoryDb(db, u, p, nextId, now')
  /\ call' = [IdleCall EXCEPT !.op = "addCategory", !.userId = u, !.newId = nextId,
                              !.pre = db]

\* a variant without the guard
UpdateCategoryUnguarded(category, isAdmin) == TRUE

\* the guard of updateCategory: a public category is edited by an admin only
UpdateCategoryAllowed(category, isAdmin) == category.isPublic => isAdmin

\* updateDoc(docRef, data) of a category: the fields the argument has
\* replace the stored ones, the fields it lacks stay as they are stored
MergeCategory(old, data) ==
  [old EXCEPT !.name = data.name, !.color = data.color, !.icon = data.icon,
              !.ownerId = IF data.ownerId = Undef THEN @ ELSE data.ownerId,
              !.createdAt = IF data.createdAt = NoTime THEN @ ELSE data.createdAt]

\* the store after updateCategory's updateDoc; isPublic is not written to a
\* public document, id never
UpdateCategoryDb(d, u, category) ==
  IF category.isPublic
  THEN [d EXCEPT !.publicCategories =
          {IF c.id = category.id THEN MergeCategory(c, category) ELSE c : c \in @}]
  ELSE [d EXCEPT !.userCategories[u] =
          {IF c.id = category.id
           THEN [MergeCategory(c, category) EXCEPT !.isPublic = FALSE]
           ELSE c : c \in @}]

\* updateCategory(userId, category, isAdmin); category is {...catToUpdate, ...data}
UpdateCategory(u, cat, p, isAdmin) ==
  LET category == [cat EXCEPT !.name = p.name, !.color = p.color, !.icon = p.icon]
      target == IF category.isPublic THEN db.publicCategories ELSE db.userCategories[u]
      status == IF ~UpdateCategoryAllowed(category, isAdmin) THEN "permission-denied"
                ELSE IF category.id \notin Ids(target) THEN "not-found"
                ELSE "ok"
  IN /\ CanCall
     /\ calls' = calls + 1
     /\ db' = IF status = "ok" THEN UpdateCategoryDb(db, u, category) ELSE db
     /\ call' = [IdleCall EXCEPT !.op = "updateCategory", !.userId = u, !.isAdmin = isAdmin,
                                 !.category = category, !.status = status, !.pre = db]
     /\ UNCHANGED <<nextId, now>>

\* deleteCategory's deleteDoc: private partition only; notes are not touched
DeleteCategoryDb(d, u, categoryId) ==
  [d EXCEPT !.userCategories[u] = DeleteDoc(@, categoryId)]

\* what a call remembers of the call it follows: deleteCategory of the
\* migration before it, toggleCategoryPublish of the attempt it repeats
Following ==
  [op |-> call.op, status |-> call.status, userId |-> call.userId,
   fromCatId |-> call.fromCatId, toCatId |-> call.toCatId,
   categoryId |-> call.category.id, makePublic |-> call.makePublic, pre |-> call.pre]

\* deleteCategory(userId, categoryId, isPublic)
DeleteCategory(u, categoryId, isPublic) ==
  LET status == IF isPublic THEN "cannot-delete-public" ELSE "ok"
  IN /\ CanCall
     /\ calls' = calls + 1
     /\ db' = IF status = "ok" THEN DeleteCategoryDb(db, u, categoryId) ELSE db
     /\ call' = [IdleCall EXCEPT !.op = "deleteCategory", !.userId = u,
                                 !.fromCatId = categoryId, !.category.isPublic = isPublic,
                                 !.status = status, !.after = Following, !.pre = db]
     /\ UNCHANGED <<nextId, now>>

\* ------------------------------------------------------------------- notes
\* a variant that lets the category alone decide
ShouldBePublicByCategory(isAdmin, categoryIsPublic) == categoryIsPublic

\* saveNote's shouldBePublic
ShouldBePublic(isAdmin, categoryIsPublic) == isAdmin /\ categoryIsPublic

\* the store after saveNote's addDoc: removeUndefined({...note, ownerId,
\* isPublic, createdAt, updatedAt}) in the public or the caller's collection
CreateNoteDb(d, u, note, shouldBePublic, id, t) ==
  LET doc == [note EXCEPT !.id = id, !.ownerId = u, !.isPublic = shouldBePublic,
                          !.createdAt = t, !.updatedAt = t]
  IN IF shouldBePublic
     THEN [d EXCEPT !.publicNotes = AddDoc(@, id, doc)]
     ELSE [d EXCEPT !.userNotes[u] = AddDoc(@, id, doc)]

\* a variant without the guard
UpdateNoteUnguarded(note, isAdmin) == TRUE

\* the guard of saveNote's update branch: a public note is edited by an admin only
UpdateNoteAllowed(note, isAdmin) == note.isPublic => isAdmin

\* the store after saveNote's updateDoc, routed by the note's own isPublic
UpdateNoteDb(d, u, note, t) ==
  LET data == [note EXCEPT !.updatedAt = t]
  IN IF note.isPublic
     THEN [d EXCEPT !.publicNotes = UpdateNoteDoc(@, note.id, data)]
     ELSE [d EXCEPT !.userNotes[u] = UpdateNoteDoc(@, note.id, data)]

\* saveNote(userId, note, isAdmin, categoryIsPublic)
SaveNote(u, note, isAdmin, categoryIsPublic) ==
  LET create == note.id = NoId
      target == IF note.isPublic THEN db.publicNotes ELSE db.userNotes[u]
      status == IF create THEN "ok"
                ELSE IF ~UpdateNoteAllowed(note, isAdmin) THEN "permission-denied"
                ELSE IF note.id \notin Ids(target) THEN "not-found"
                ELSE "ok"
      shouldBePublic == ShouldBePublic(isAdmin, categoryIsPublic)
  IN /\ CanCall
     /\ calls' = calls + 1
     /\ now' = IF status = "ok" THEN now + 1 ELSE now
     /\ nextId' = IF create THEN nextId + 1 ELSE nextId
     /\ db' = IF status # "ok" THEN db
              ELSE IF create THEN CreateNoteDb(db, u, note, shouldBePublic, nextId, now')
              ELSE UpdateNoteDb(db, u, note, now')
     /\ call' = [IdleCall EXCEPT !.op = "saveNote", !.userId = u, !.isAdmin = isAdmin,
                   !.categoryIsPublic = categoryIsPublic, !.note = note, !.status = status,
                   !.newId = IF status # "ok" THEN NoId ELSE IF create THEN nextId ELSE note.id,
                   !.isPublic = IF create THEN shouldBePublic ELSE note.isPublic,
                   !.pre = db]

\* the guard of deleteNote: a public note is deleted by an admin only
DeleteNoteAllowed(isPublic, isAdmin) == isPublic => isAdmin

\* the store after deleteNote's deleteDoc
DeleteNoteDb(d, u, noteId, isPublic) ==
  IF isPublic
  THEN [d EXCEPT !.publicNotes = DeleteDoc(@, noteId)]
  ELSE [d EXCEPT !.userNotes[u] = DeleteDoc(@, noteId)]

\* deleteNote(userId, noteId, isPublic, isAdmin)
DeleteNote(u, noteId, isPublic, isAdmin) ==
  LET status == IF DeleteNoteAllowed(isPublic, isAdmin) THEN "ok" ELSE "permission-denied"
  IN /\ CanCall
     /\ calls' = calls + 1
     /\ db' = IF status = "ok" THEN DeleteNoteDb(db, u, noteId, isPublic) ELSE db
     /\ call' = [IdleCall EXCEPT !.op = "deleteNote", !.userId = u, !.isAdmin = isAdmin,
                   !.note.id = noteId, !.note.isPublic = isPublic, !.status = status,
                   !.pre = db]
     /\ UNCHANGED <<nextId, now>>

\* the where("categoryId", "==", id) query over a notes collection
NotesOfCategory(coll, categoryId) == {n \in coll : n.categoryId = categoryId}

\* the store after the updateDoc({categoryId: toCatId}) of the notes in `done`
MigrateDb(d, u, done, toCatId) ==
  [d EXCEPT !.userNotes[u] =
     {IF n \in done THEN [n EXCEPT !.categoryId = toCatId] ELSE n : n \in @}]

\* migrateNotesToCategory(userId, fromCatId, toCatId): Promise.all over one
\* updateDoc per private note of the category; it resolves when every update
\* did, and rejects when one did not, the others having been applied or not
MigrateNotesToCategory(u, fromCatId, toCatId, done) ==
  LET found == NotesOfCategory(db.userNotes[u], fromCatId)
  IN /\ CanCall
     /\ done \subseteq found
     /\ calls' = calls + 1
     /\ db' = MigrateDb(db, u, done, toCatId)
     /\ call' = [IdleCall EXCEPT !.op = "migrateNotesToCategory", !.userId = u,
                   !.fromCatId = fromCatId, !.toCatId = toCatId,
                   !.status = IF done = found THEN "ok" ELSE "failed", !.pre = db]
     /\ UNCHANGED <<nextId, now>>

\* ----------------------------------------------------------------- toggles
\* a variant that copies the source's isPublic along with its fields
NoteCopyKeepingFlag(u, note, makePublic, id, t) ==
  [id |-> id, categoryId |-> note.categoryId, title |-> note.title,
   content |-> note.content, imageUrl |-> note.imageUrl, images |-> Undef,
   tags |-> note.tags, createdAt |-> note.createdAt, updatedAt |-> t,
   ownerId |-> u, isPublic |-> note.isPublic]

\* toggleNotePublish's cleanNote, stored under a fresh id: the fields it
\* lists, updatedAt read from the clock, the caller as owner
NoteCopy(u, note, makePublic, id, t) ==
  [id |-> id, categoryId |-> note.categoryId, title |-> note.title,
   content |-> note.content, imageUrl |-> note.imageUrl, images |-> Undef,
   tags |-> note.tags, createdAt |-> note.createdAt, updatedAt |-> t,
   ownerId |-> u, isPublic |-> makePublic]

\* the collection family a toggle copies into, with the copy added
AddToDestination(d, u, makePublic, doc) ==
  IF makePublic
  THEN [d EXCEPT !.publicNotes = AddDoc(@, doc.id, doc)]
  ELSE [d EXCEPT !.userNotes[u] = AddDoc(@, doc.id, doc)]

\* the collection family a toggle moves out of, with the source deleted
DeleteFromSource(d, u, makePublic, noteId) ==
  IF makePublic
  THEN [d EXCEPT !.userNotes[u] = DeleteDoc(@, noteId)]
  ELSE [d EXCEPT !.publicNotes = DeleteDoc(@, noteId)]

\* the toggles' guard on the delete: the argument says it is in the source
InSource(isPublic, makePublic) == IF makePublic THEN ~isPublic ELSE isPublic

\* toggleNotePublish(userId, note, makePublic), up to its first await: the
\* copy is created; without a source to delete the call returns at once
ToggleNotePublish(u, note, makePublic) ==
  /\ CanCall
  /\ calls' = calls + 1
  /\ now' = now + 1
  /\ nextId' = nextId + 1
  /\ db' = AddToDestination(db, u, makePublic, NoteCopy(u, note, makePublic, nextId, now'))
  /\ call' = [IdleCall EXCEPT !.op = "toggleNotePublish", !.userId = u, !.note = note,
                !.makePublic = makePublic, !.newId = nextId, !.isPublic = makePublic,
                !.pc = IF InSource(note.isPublic, makePublic) THEN "delete-source" ELSE "idle",
                !.pre = db]

\* toggleNotePublish, second await: the source is deleted and the call returns
ToggleNoteDeleteSource ==
  /\ call.op = "toggleNotePublish" /\ call.pc = "delete-source"
  /\ db' = DeleteFromSource(db, call.userId, call.makePublic, call.note.id)
  /\ call' = [call EXCEPT !.pc = "idle"]
  /\ UNCHANGED <<nextId, now, calls>>

\* toggleCategoryPublish's cleanCategory, stored under a fresh id
CategoryCopy(u, category, makePublic, id, t) ==
  [id |-> id, name |-> category.name, color |-> category.color, icon |-> category.icon,
   ownerId |-> u, isPublic |-> makePublic, createdAt |-> t]

\* the store after toggleCategoryPublish's first addDoc
AddCategoryCopy(d, u, makePublic, copy) ==
  IF makePublic
  THEN [d EXCEPT !.publicCategories = AddDoc(@, copy.id, copy)]
  ELSE [d EXCEPT !.userCategories[u] = AddDoc(@, copy.id, copy)]

\* the notes toggleCategoryPublish's query finds: those of the source
\* partition that reference the category
NotesToMigrate(u, category, makePublic) ==
  IF makePublic
  THEN NotesOfCategory(db.userNotes[u], category.id)
  ELSE NotesOfCategory(db.publicNotes, category.id)

\* toggleCategoryPublish(userId, category, makePublic), up to the loop: the
\* copy of the category is created and the notes to migrate are read; a
\* category that is already in the destination is copied and nothing else
ToggleCategoryPublish(u, category, makePublic) ==
  LET move == InSource(category.isPublic, makePublic)
      docs == IF move THEN NotesToMigrate(u, category, makePublic) ELSE {}
      copy == CategoryCopy(u, category, makePublic, nextId, now')
  IN /\ CanCall
     /\ calls' = calls + 1
     /\ now' = now + 1
     /\ nextId' = nextId + 1
     /\ db' = AddCategoryCopy(db, u, makePublic, copy)
     /\ call' = [IdleCall EXCEPT !.op = "toggleCategoryPublish", !.userId = u,
                   !.category = category, !.makePublic = makePublic, !.newId = nextId,
                   !.isPublic = makePublic, !.docs = docs,
                   !.pc = IF ~move THEN "idle"
                          ELSE IF docs = {} THEN "delete-category" ELSE "copy-note",
                   !.after = Following, !.pre = db]

\* a variant that leaves the copy in the old category
MigratedNoteCopyInOldCategory(u, noteData, newCategoryId, makePublic, id, t) ==
  NoteCopy(u, noteData, makePublic, id, t)

\* the copy of a note that toggleCategoryPublish writes: as NoteCopy, under
\* the new category id
MigratedNoteCopy(u, noteData, newCategoryId, makePublic, id, t) ==
  [NoteCopy(u, noteData, makePublic, id, t) EXCEPT !.categoryId = newCategoryId]

\* the loop body, first await: the next note is copied into the destination
\* and entered in migratedNoteIds
ToggleCategoryCopyNote ==
  /\ call.op = "toggleCategoryPublish" /\ call.pc = "copy-note"
  /\ \E noteDoc \in call.docs :
       /\ now' = now + 1
       /\ nextId' = nextId + 1
       /\ db' = AddToDestination(db, call.userId, call.makePublic,
                  MigratedNoteCopy(call.userId, noteDoc, call.newId, call.makePublic,
                                   nextId, now'))
       /\ call' = [call EXCEPT !.pc = "delete-note", !.cur = noteDoc,
                     !.migratedNoteIds = @ \cup {<<noteDoc.id, nextId>>}]
  /\ UNCHANGED calls

\* the loop body, second await: the source note is deleted
ToggleCategoryDeleteNote ==
  /\ call.op = "toggleCategoryPublish" /\ call.pc = "delete-note"
  /\ db' = DeleteFromSource(db, call.userId, call.makePublic, call.cur.id)
  /\ call' = [call EXCEPT !.docs = @ \ {call.cur}, !.cur = NoNote,
                !.pc = IF call.docs = {call.cur} THEN "delete-category" ELSE "copy-note"]
  /\ UNCHANGED <<nextId, now, calls>>

\* the store after the last await: the source category is deleted
DeleteSourceCategory(d, u, makePublic, categoryId) ==
  IF makePublic
  THEN [d EXCEPT !.userCategories[u] = DeleteDoc(@, categoryId)]
  ELSE [d EXCEPT !.publicCategories = DeleteDoc(@, categoryId)]

\* after the loop: the source category is deleted and the call returns
ToggleCategoryDeleteSource ==
  /\ call.op = "toggleCategoryPublish" /\ call.pc = "delete-category"
  /\ db' = DeleteSourceCategory(db, call.userId, call.makePublic, call.category.id)
  /\ call' = [call EXCEPT !.pc = "idle"]
  /\ UNCHANGED <<nextId, now, calls>>

\* an awaited write of a call in flight rejects: the call throws, and what
\* it has written stays
CallFails ==
  /\ call.pc # "idle"
  /\ call' = [call EXCEPT !.pc = "idle", !.status = "failed"]
  /\ UNCHANGED <<db, nextId, now, calls>>

\* ------------------------------------------------------- the callers' inputs
\* a new note as the editor builds it: the payload, in one of the categories
\* the caller sees
NewNotes(u) ==
  {[NoNote EXCEPT !.categoryId = c.id, !.title = p.title, !.content = p.content,
                  !.imageUrl = p.imageUrl, !.images = p.images, !.tags = p.tags]
     : c \in FetchCategories(u), p \in NewNotePayloads}

\* an existing note as the editor saves it: payload and category replaced,
\* isPublic kept, no timestamps and no owner
EditedNotes(u) ==
  {[NoNote EXCEPT !.id = n.id, !.isPublic = n.isPublic, !.categoryId = c.id,
                  !.title = p.title, !.content = p.content,
                  !.imageUrl = p.imageUrl, !.images = p.images, !.tags = p.tags]
     : n \in FetchNotes(u), c \in FetchCategories(u), p \in EditedNotePayloads}

\* an existing note as the viewer saves it: the whole note with new content
HighlightedNotes(u) ==
  {[n EXCEPT !.content = "c3"] : n \in FetchNotes(u)}

\* is the category of this id public, as the caller sees it
CategoryIsPublic(u, categoryId) ==
  \E c \in FetchCategories(u) : c.id = categoryId /\ c.isPublic

\* ------------------------------------------------------ the initial stores
\* A store that earlier sessions left, built by the store's own writes:
\* u1 adds categories 1 and 2, saves notes 3 and 4 in category 1, publishes
\* the empty category 2 as public category 5 and, as admin, saves note 6 in it.
SeededDb ==
  LET p == CHOOSE x \in NewCategoryPayloads : TRUE
      n == CHOOSE x \in NewNotePayloads : TRUE
      note(c) == [NoNote EXCEPT !.categoryId = c, !.title = n.title, !.content = n.content,
                                !.imageUrl = n.imageUrl, !.images = n.images, !.tags = n.tags]
      d1 == AddCategoryDb(EmptyDb, "u1", p, 1, 1)
      d2 == AddCategoryDb(d1, "u1", p, 2, 2)
      d3 == CreateNoteDb(d2, "u1", note(1), FALSE, 3, 3)
      d4 == CreateNoteDb(d3, "u1", note(1), FALSE, 4, 4)
      d5 == AddCategoryCopy(d4, "u1", TRUE,
                            CategoryCopy("u1", DocOf(d4.userCategories["u1"], 2), TRUE, 5, 5))
      d6 == DeleteSourceCategory(d5, "u1", TRUE, 2)
  IN CreateNoteDb(d6, "u1", note(5), ShouldBePublic(IsAdmin("u1"), TRUE), 6, 6)

\* The seeded store after two more calls: u1 publishes note 3 on its own as
\* public note 7, and u2, an admin at the time (setAdminRole grants and revokes
\* the role), unpublishes note 7 into their own notes as private note 8, which
\* still names u1's private category 1.
SharedDb ==
  LET d7 == AddToDestination(SeededDb, "u1", TRUE,
              NoteCopy("u1", DocOf(SeededDb.userNotes["u1"], 3), TRUE, 7, 7))
      d8 == DeleteFromSource(d7, "u1", TRUE, 3)
      d9 == AddToDestination(d8, "u2", FALSE,
              NoteCopy("u2", DocOf(d8.publicNotes, 7), FALSE, 8, 8))
  IN DeleteFromSource(d9, "u2", FALSE, 7)

\* the stores a behaviour may start in, with the next free id and the clock
\* where the store's documents end
InitialStores ==
  {[db |-> EmptyDb, nextId |-> 1, now |-> 0],
   [db |-> SeededDb, nextId |-> 7, now |-> 6],
   [db |-> SharedDb, nextId |-> 9, now |-> 8]}

InitStore ==
  /\ \E s \in InitialStores : db = s.db /\ nextId = s.nextId /\ now = s.now
  /\ calls = 0
  /\ call = IdleCall

\* ------------------------------------------------------------- AI service
\* AIProviderType; "none" stands for undefined / null
ProviderTypes == {"gemini", "chatgpt"}

\* longest API key tried
MaxKeyLen == 2

\* API keys: strings over a blank and a letter; the empty one stands for ""
\* and for an absent key alike (both are falsy)
KeyChars == {" ", "k"}
Keys == UNION {[1..n -> KeyChars] : n \in 0..MaxKeyLen}

\* String.prototype.trim
RECURSIVE TrimLeft(_)
TrimLeft(s) == IF s # <<>> /\ Head(s) = " " THEN TrimLeft(Tail(s)) ELSE s
RECURSIVE TrimRight(_)
TrimRight(s) ==
  IF s # <<>> /\ s[Len(s)] = " " THEN TrimRight(SubSeq(s, 1, Len(s) - 1)) ELSE s
Trim(s) == TrimRight(TrimLeft(s))

\* BaseAIProvider.isConfigured
IsConfigured(apiKey) == apiKey # <<>> /\ Len(Trim(apiKey)) > 0

\* the settings configure is handed
Settings ==
  [geminiApiKey : Keys, chatgptApiKey : Keys, preferredProvider : ProviderTypes \cup {"none"}]

\* the settings of a service that was constructed without any
NoSettings == [geminiApiKey |-> <<>>, chatgptApiKey |-> <<>>, preferredProvider |-> "none"]

\* a variant that registers every key that is given
RegisterWithoutTrim(registry, type, apiKey) ==
  IF apiKey # <<>>
  THEN Append(registry, [type |-> type, apiKey |-> apiKey])
  ELSE registry

\* the registry after configure's providers.set for one kind
Register(registry, type, apiKey) ==
  IF apiKey # <<>> /\ IsConfigured(apiKey)
  THEN Append(registry, [type |-> type, apiKey |-> apiKey])
  ELSE registry

\* the registry configure builds: cleared, then gemini, then chatgpt
ConfiguredProviders(settings) ==
  Register(Register(<<>>, "gemini", settings.geminiApiKey), "chatgpt", settings.chatgptApiKey)

\* the kinds of the registered providers
Registered == {providers[i].type : i \in 1..Len(providers)}

\* providers.get(type)
GetProvider(type) ==
  IF type \in Registered
  THEN (CHOOSE i \in 1..Len(providers) : providers[i].type = type)
  ELSE 0

\* a variant without the fallback to the first registered provider
GetPreferredProviderOnly ==
  IF preferredProvider # "none" THEN GetProvider(preferredProvider) ELSE 0

\* getPreferredProvider: the preferred kind if registered, else the first
\* registered, else none (0)
GetPreferredProvider ==
  IF preferredProvider # "none" /\ preferredProvider \in Registered
  THEN GetProvider(preferredProvider)
  ELSE IF Len(providers) > 0 THEN 1 ELSE 0

\* a variant that falls back to the preferred provider when the requested
\* kind is not registered
ResolveProviderWithFallback(providerType) ==
  IF providerType # "none" /\ GetProvider(providerType) # 0
  THEN [provider |-> GetProvider(providerType), error |-> "none"]
  ELSE IF GetPreferredProvider # 0
       THEN [provider |-> GetPreferredProvider, error |-> "none"]
       ELSE [provider |-> 0, error |-> "no-provider-configured"]

\* the provider enhance resolves, or the error it throws
ResolveProvider(providerType) ==
  IF providerType # "none"
  THEN IF GetProvider(providerType) # 0
       THEN [provider |-> GetProvider(providerType), error |-> "none"]
       ELSE [provider |-> 0, error |-> "not-configured"]
  ELSE IF GetPreferredProvider # 0
       THEN [provider |-> GetPreferredProvider, error |-> "none"]
       ELSE [provider |-> 0, error |-> "no-provider-configured"]

\* what a provider's request may come back with
Outcomes == {"response", "no-response", "http-error"}

NoAICall ==
  [op |-> "none", providerType |-> "none", error |-> "none", invoked |-> "none",
   requests |-> 0, outcome |-> "none", settings |-> NoSettings]

InitAI ==
  /\ providers = <<>>
  /\ preferredProvider = "none"
  /\ ai = NoAICall

\* ------------------------------------------------- profiles and admin role
\* the accounts that can sign in: the store's users and one more
Accounts == Users \cup {"u3"}

\* userRecord.email of each account, as typed at sign-up
Email == [a \in Accounts |->
            IF a = "u1" THEN "Ann@x.io" ELSE IF a = "u2" THEN "bob@x.io" ELSE "cy@x.io"]

\* String.prototype.toLowerCase on the e-mail addresses in use
ToLowerCase(email) == IF email = "Ann@x.io" THEN "ann@x.io" ELSE email

\* email.split("@")[0]
LocalPart(email) ==
  IF email = "Ann@x.io" THEN "Ann" ELSE IF email = "ann@x.io" THEN "ann"
  ELSE IF email = "bob@x.io" THEN "bob" ELSE "cy"

\* userRecord.displayName; "" stands for an account without one
DisplayName == [a \in Accounts |-> IF a = "u3" THEN "Cy" ELSE ""]

\* ADMIN_EMAILS: VITE_ADMIN_EMAILS split, trimmed and lower-cased
ADMIN_EMAILS == {"ann@x.io", "cy@x.io"}

\* ADMIN_EMAILS.includes(email.toLowerCase())
AllowListed(a) == ToLowerCase(Email[a]) \in ADMIN_EMAILS

\* number of profile functions invoked in one behaviour
MaxInvocations == 3

\* an account without a profile document
NoProfile ==
  [exists |-> FALSE, email |-> "", displayName |-> "", isAdmin |-> FALSE,
   createdAt |-> NoTime]

\* an account that has invoked nothing
NoInvocation ==
  [op |-> "none", pc |-> "done", result |-> "none", target |-> "none", isAdmin |-> FALSE,
   again |-> FALSE, first |-> NoProfile, after |-> NoProfile]

\* the onUserProfileCreated event of a profile: not raised, waiting to be
\* handled ("pending") or past its update ("claims"), with the names of the
\* fields the created document had
NoEvent == [pc |-> "none", fields |-> {}]

\* the fields every writer of a profile sets
ProfileFields == {"email", "displayName", "isAdmin", "createdAt"}

InitAdmin ==
  /\ created = [a \in Accounts |-> NoEvent]
  /\ profiles = [a \in Accounts |-> NoProfile]
  /\ claims = [a \in Accounts |-> FALSE]
  /\ fn = [a \in Accounts |-> NoInvocation]
  /\ serverTime = 0
  /\ invocations = 0
  /\ setupSuccesses = 0

\* ------------------------------------------------------------ the session
\* number of handlers that call the store in one behaviour
MaxHandlers == 2

\* the session of GuestApp has no user
Guest == "guest"

\* the queries a load step issues, each of which may be rejected
Queries == {"privateCategories", "publicCategories", "privateNotes", "publicNotes"}

\* the last handler: its name and argument, the fallback category it found,
\* how it ended, the store functions it called in order, the queries that were rejected, and the store it
\* started from
NoHandler ==
  [op |-> "none", status |-> "ok", id |-> NoId, fallback |-> NoId, stores |-> <<>>,
   failed |-> {}, pre |-> EmptyDb]

\* useState's initial values; isLoadingData starts true
InitApp ==
  /\ user = Undef
  /\ view = "DASHBOARD"
  /\ activeCategoryId = NoId
  /\ activeNote = NoNote
  /\ notes = <<>>
  /\ categories = <<>>
  /\ isLoadingData = TRUE
  /\ handled = 0
  /\ handler = NoHandler
  /\ timeouts = <<>>
  /\ editorCreates = 0

\* the debounce timer is not set
NoTimeout == [set |-> FALSE, note |-> NoNote]

\* the DOM holds no content
NoContent == [of |-> NoId, text |-> Undef]

\* NoteViewer's refs before it has mounted
InitViewer ==
  /\ innerHTML = NoContent
  /\ hasChanges = FALSE
  /\ saveTimeout = NoTimeout
  /\ saves = <<>>
  /\ edits = {}
  /\ written = {}

Init == InitStore /\ InitAI /\ InitAdmin /\ InitApp /\ InitViewer


\* ---------------------------------------------------------------- the store
Next ==
  \/ \E u \in Users, p \in NewCategoryPayloads : AddCategory(u, p) /\ UNCHANGED <<aiVars, adminVars, appVars, viewerVars>>
  \/ \E u \in Users, p \in EditedCategoryPayloads :
       \E cat \in FetchCategories(u) : UpdateCategory(u, cat, p, IsAdmin(u)) /\ UNCHANGED <<aiVars, adminVars, appVars, viewerVars>>
  \/ \E u \in Users, isPublic \in BOOLEAN :
       \E cat \in FetchCategories(u) : DeleteCategory(u, cat.id, isPublic) /\ UNCHANGED <<aiVars, adminVars, appVars, viewerVars>>
  \/ \E u \in Users :
       \E note \in NewNotes(u) \cup EditedNotes(u) \cup HighlightedNotes(u) :
         SaveNote(u, note, IsAdmin(u), CategoryIsPublic(u, note.categoryId)) /\ UNCHANGED <<aiVars, adminVars, appVars, viewerVars>>
  \/ \E u \in Users :
       \E n \in FetchNotes(u) : DeleteNote(u, n.id, n.isPublic, IsAdmin(u)) /\ UNCHANGED <<aiVars, adminVars, appVars, viewerVars>>
  \/ \E u \in Users :
       \E from \in FetchCategories(u), to \in FetchCategories(u) :
         /\ from.id # to.id
         /\ \E done \in SUBSET NotesOfCategory(db.userNotes[u], from.id) :
              MigrateNotesToCategory(u, from.id, to.id, done)
         /\ UNCHANGED <<aiVars, adminVars, appVars, viewerVars>>
  \/ \E u \in Users, makePublic \in BOOLEAN :
       \E note \in FetchNotes(u) : ToggleNotePublish(u, note, makePublic) /\ UNCHANGED <<aiVars, adminVars, appVars, viewerVars>>
  \/ /\ call.op = "toggleNotePublish" /\ call.status = "ok"
     /\ ToggleNotePublish(call.userId, call.note, call.makePublic)
     /\ UNCHANGED <<aiVars, adminVars, appVars, viewerVars>>
  \/ ToggleNoteDeleteSource /\ UNCHANGED <<aiVars, adminVars, appVars, viewerVars>>
  \/ \E u \in Users, makePublic \in BOOLEAN :
       \E category \in FetchCategories(u) :
         ToggleCategoryPublish(u, category, makePublic) /\ UNCHANGED <<aiVars, adminVars, appVars, viewerVars>>
  \/ ToggleCategoryCopyNote /\ UNCHANGED <<aiVars, adminVars, appVars, viewerVars>>
  \/ ToggleCategoryDeleteNote /\ UNCHANGED <<aiVars, adminVars, appVars, viewerVars>>
  \/ ToggleCategoryDeleteSource /\ UNCHANGED <<aiVars, adminVars, appVars, viewerVars>>
  \/ CallFails /\ UNCHANGED <<aiVars, adminVars, appVars, viewerVars>>

Spec == Init /\ [][Next]_vars

\* ----------------------------------------------------------- the AI service
\* configure(settings)
Configure(settings) ==
  /\ providers' = ConfiguredProviders(settings)
  /\ preferredProvider' = settings.preferredProvider
  /\ ai' = [NoAICall EXCEPT !.op = "configure", !.settings = settings]

\* enhance(context, providerType): the provider's enhance is called only when
\* one resolved; the provider sends its request only when it is configured
Enhance(providerType, outcome) ==
  LET r == ResolveProvider(providerType)
      sends == r.provider # 0 /\ IsConfigured(providers[r.provider].apiKey)
  IN /\ ai' = [op |-> "enhance", providerType |-> providerType,
               error |-> IF r.provider = 0 THEN r.error
                         ELSE IF ~sends THEN "provider-not-configured"
                         ELSE IF outcome = "response" THEN "none" ELSE outcome,
               invoked |-> IF r.provider = 0 THEN "none" ELSE providers[r.provider].type,
               requests |-> IF sends THEN 1 ELSE 0,
               outcome |-> IF sends THEN outcome ELSE "none",
               settings |-> ai.settings]
     /\ UNCHANGED <<providers, preferredProvider>>

NextAI ==
  \/ \E settings \in Settings : Configure(settings) /\ UNCHANGED <<storeVars, adminVars, appVars, viewerVars>>
  \/ \E providerType \in ProviderTypes \cup {"none"}, outcome \in Outcomes :
       Enhance(providerType, outcome) /\ UNCHANGED <<storeVars, adminVars, appVars, viewerVars>>

\* the service does not touch the store: it is checked over the empty one
InitAIService == Init /\ db = EmptyDb

SpecAI == InitAIService /\ [][NextAI]_vars

\* --------------------------------------------- the profile functions
\* .where("isAdmin", "==", true).limit(1).get() is not empty
AnAdminExists == \E a \in Accounts : profiles[a].exists /\ profiles[a].isAdmin

\* the call of account a that begins now repeats the call that account made
\* last, which succeeded
Again(a, op) == fn[a].op = op /\ fn[a].result = "success"

\* a callable is invoked by an authenticated account that has none in flight;
\* a repeated call remembers the profile the first one left
Invoke(a, op, pc, target, isAdmin) ==
  /\ fn[a].pc = "done"
  /\ invocations < MaxInvocations
  /\ invocations' = invocations + 1
  /\ fn' = [fn EXCEPT ![a] = [NoInvocation EXCEPT !.op = op, !.pc = pc, !.target = target,
                                 !.isAdmin = isAdmin, !.again = Again(a, op),
                                 !.first = IF Again(a, op) THEN fn[a].after ELSE NoProfile]]
  /\ UNCHANGED <<profiles, claims, serverTime, setupSuccesses, created>>

\* the callable of account a throws or returns
Return(a, result) == fn' = [fn EXCEPT ![a].pc = "done", ![a].result = result]

\* a write that creates the profile document raises onUserProfileCreated
\* with the document as written
Raised(a, fields) ==
  IF profiles[a].exists THEN created
  ELSE [created EXCEPT ![a] = [pc |-> "pending", fields |-> fields]]

\* doc.set(data, {merge: true}) with the four profile fields
SetProfile(a, isAdmin, t) ==
  [exists |-> TRUE,
   email |-> Email[a],
   displayName |-> IF DisplayName[a] # "" THEN DisplayName[a] ELSE LocalPart(Email[a]),
   isAdmin |-> isAdmin,
   createdAt |-> t]

\* setupInitialAdmin: the admin query and getUser; the call fails when an
\* admin exists, then when the caller's e-mail is not listed
SetupInitialAdminCheck(a) ==
  /\ fn[a].op = "setupInitialAdmin" /\ fn[a].pc = "query"
  /\ IF AnAdminExists THEN Return(a, "already-exists")
     ELSE IF ~AllowListed(a) THEN Return(a, "permission-denied")
     ELSE fn' = [fn EXCEPT ![a].pc = "set"]
  /\ UNCHANGED <<profiles, claims, serverTime, invocations, setupSuccesses, created>>

\* setupInitialAdmin: the profile is set with isAdmin: true
SetupInitialAdminSet(a) ==
  /\ fn[a].op = "setupInitialAdmin" /\ fn[a].pc = "set"
  /\ serverTime' = serverTime + 1
  /\ profiles' = [profiles EXCEPT ![a] = SetProfile(a, TRUE, serverTime')]
  /\ created' = Raised(a, ProfileFields)
  /\ fn' = [fn EXCEPT ![a].pc = "claims"]
  /\ UNCHANGED <<claims, invocations, setupSuccesses>>

\* setupInitialAdmin: the custom claim is set and the call returns success
SetupInitialAdminClaims(a) ==
  /\ fn[a].op = "setupInitialAdmin" /\ fn[a].pc = "claims"
  /\ claims' = [claims EXCEPT ![a] = TRUE]
  /\ Return(a, "success")
  /\ setupSuccesses' = setupSuccesses + 1
  /\ UNCHANGED <<profiles, serverTime, invocations, created>>

\* the createUserProfile callable: the profile is set, isAdmin as the list says
CreateUserProfileSet(a) ==
  /\ fn[a].op = "createUserProfile" /\ fn[a].pc = "set"
  /\ serverTime' = serverTime + 1
  /\ profiles' = [profiles EXCEPT ![a] = SetProfile(a, AllowListed(a), serverTime')]
  /\ created' = Raised(a, ProfileFields)
  /\ fn' = [fn EXCEPT ![a].after = profiles'[a],
                      ![a].pc = IF AllowListed(a) THEN "claims" ELSE "done",
                      ![a].result = IF AllowListed(a) THEN "none" ELSE "success"]
  /\ UNCHANGED <<claims, invocations, setupSuccesses>>

\* the createUserProfile callable: the claim of a listed caller is set
CreateUserProfileClaims(a) ==
  /\ fn[a].op = "createUserProfile" /\ fn[a].pc = "claims"
  /\ claims' = [claims EXCEPT ![a] = TRUE]
  /\ Return(a, "success")
  /\ UNCHANGED <<profiles, serverTime, invocations, setupSuccesses, created>>

\* setAdminRole: the caller's profile is read
SetAdminRoleCheck(a) ==
  /\ fn[a].op = "setAdminRole" /\ fn[a].pc = "read-caller"
  /\ IF profiles[a].exists /\ profiles[a].isAdmin
     THEN fn' = [fn EXCEPT ![a].pc = "update"]
     ELSE Return(a, "permission-denied")
  /\ UNCHANGED <<profiles, claims, serverTime, invocations, setupSuccesses, created>>

\* setAdminRole: update({isAdmin}) of the target, which fails without a document
SetAdminRoleUpdate(a) ==
  /\ fn[a].op = "setAdminRole" /\ fn[a].pc = "update"
  /\ IF profiles[fn[a].target].exists
     THEN /\ profiles' = [profiles EXCEPT ![fn[a].target].isAdmin = fn[a].isAdmin]
          /\ fn' = [fn EXCEPT ![a].pc = "claims"]
     ELSE /\ Return(a, "not-found")
          /\ UNCHANGED profiles
  /\ UNCHANGED <<claims, serverTime, invocations, setupSuccesses, created>>

\* setAdminRole: the target's claim is set and the call returns
SetAdminRoleClaims(a) ==
  /\ fn[a].op = "setAdminRole" /\ fn[a].pc = "claims"
  /\ claims' = [claims EXCEPT ![fn[a].target] = fn[a].isAdmin]
  /\ Return(a, "success")
  /\ UNCHANGED <<profiles, serverTime, invocations, setupSuccesses, created>>

\* dbService.createUserProfile: one setDoc with isAdmin: false and the
\* client's clock
ClientCreateUserProfile(a) ==
  /\ fn[a].pc = "done"
  /\ invocations < MaxInvocations
  /\ invocations' = invocations + 1
  /\ serverTime' = serverTime + 1
  /\ profiles' = [profiles EXCEPT ![a] = SetProfile(a, FALSE, serverTime')]
  /\ created' = Raised(a, ProfileFields)
  /\ fn' = [fn EXCEPT ![a] =
             [NoInvocation EXCEPT !.op = "clientCreateUserProfile", !.result = "success",
                !.again = Again(a, "clientCreateUserProfile"),
                !.first = IF Again(a, "clientCreateUserProfile") THEN fn[a].after
                          ELSE NoProfile,
                !.after = profiles'[a]]]
  /\ UNCHANGED <<claims, setupSuccesses>>

\* the onUserProfileCreated trigger: it returns when the created document
\* had isAdmin; else, for a listed e-mail, it updates isAdmin to true and then
\* sets the claim
OnUserProfileCreated(a) ==
  /\ created[a].pc # "none"
  /\ IF created[a].pc = "claims"
     THEN /\ claims' = [claims EXCEPT ![a] = TRUE]
          /\ created' = [created EXCEPT ![a] = NoEvent]
          /\ UNCHANGED profiles
     ELSE IF "isAdmin" \notin created[a].fields /\ AllowListed(a)
     THEN /\ profiles' = [profiles EXCEPT ![a].isAdmin = TRUE]
          /\ created' = [created EXCEPT ![a].pc = "claims"]
          /\ UNCHANGED claims
     ELSE /\ created' = [created EXCEPT ![a] = NoEvent]
          /\ UNCHANGED <<profiles, claims>>
  /\ UNCHANGED <<fn, serverTime, invocations, setupSuccesses>>

NextAdmin ==
  \/ \E a \in Accounts :
       Invoke(a, "setupInitialAdmin", "query", "none", FALSE) /\ UNCHANGED <<storeVars, aiVars, appVars, viewerVars>>
  \/ \E a \in Accounts :
       Invoke(a, "createUserProfile", "set", "none", FALSE) /\ UNCHANGED <<storeVars, aiVars, appVars, viewerVars>>
  \/ \E a \in Accounts, target \in Accounts, isAdmin \in BOOLEAN :
       Invoke(a, "setAdminRole", "read-caller", target, isAdmin)
         /\ UNCHANGED <<storeVars, aiVars, appVars, viewerVars>>
  \/ \E a \in Accounts : SetupInitialAdminCheck(a) /\ UNCHANGED <<storeVars, aiVars, appVars, viewerVars>>
  \/ \E a \in Accounts : SetupInitialAdminSet(a) /\ UNCHANGED <<storeVars, aiVars, appVars, viewerVars>>
  \/ \E a \in Accounts : SetupInitialAdminClaims(a) /\ UNCHANGED <<storeVars, aiVars, appVars, viewerVars>>
  \/ \E a \in Accounts : CreateUserProfileSet(a) /\ UNCHANGED <<storeVars, aiVars, appVars, viewerVars>>
  \/ \E a \in Accounts : CreateUserProfileClaims(a) /\ UNCHANGED <<storeVars, aiVars, appVars, viewerVars>>
  \/ \E a \in Accounts : SetAdminRoleCheck(a) /\ UNCHANGED <<storeVars, aiVars, appVars, viewerVars>>
  \/ \E a \in Accounts : SetAdminRoleUpdate(a) /\ UNCHANGED <<storeVars, aiVars, appVars, viewerVars>>
  \/ \E a \in Accounts : SetAdminRoleClaims(a) /\ UNCHANGED <<storeVars, aiVars, appVars, viewerVars>>
  \/ \E a \in Accounts : ClientCreateUserProfile(a) /\ UNCHANGED <<storeVars, aiVars, appVars, viewerVars>>
  \/ \E a \in Accounts : OnUserProfileCreated(a) /\ UNCHANGED <<storeVars, aiVars, appVars, viewerVars>>

SpecAdmin == Init /\ [][NextAdmin]_vars

\* ------------------------------------------------ the session's read paths
\* getDocs of a query with orderBy("createdAt", "asc"): the documents that
\* have the field, oldest first, equal times by document id
RECURSIVE OrderByCreatedAtAsc(_)
OrderByCreatedAtAsc(coll) ==
  LET docs == {d \in coll : d.createdAt # NoTime}
  IN IF docs = {} THEN <<>>
     ELSE LET first == CHOOSE d \in docs : \A e \in docs :
                         \/ d.createdAt < e.createdAt
                         \/ d.createdAt = e.createdAt /\ d.id <= e.id
          IN <<first>> \o OrderByCreatedAtAsc(docs \ {first})

\* getDocs of a query with orderBy("updatedAt", "desc"): newest first
RECURSIVE OrderByUpdatedAtDesc(_)
OrderByUpdatedAtDesc(coll) ==
  LET docs == {d \in coll : d.updatedAt # NoTime}
  IN IF docs = {} THEN <<>>
     ELSE LET first == CHOOSE d \in docs : \A e \in docs :
                         \/ d.updatedAt > e.updatedAt
                         \/ d.updatedAt = e.updatedAt /\ d.id >= e.id
          IN <<first>> \o OrderByUpdatedAtDesc(docs \ {first})

\* snapshot.docs.map(doc => ({id, ...doc.data(), isPublic}))
Tagged(docs, isPublic) == [i \in 1..Len(docs) |-> [docs[i] EXCEPT !.isPublic = isPublic]]

\* fetchCategories(userId): both queries inside one try; the catch returns []
FetchCategoriesArray(d, u, failed) ==
  IF failed \cap {"privateCategories", "publicCategories"} # {} THEN <<>>
  ELSE Tagged(OrderByCreatedAtAsc(d.publicCategories), TRUE)
         \o Tagged(OrderByCreatedAtAsc(d.userCategories[u]), FALSE)

\* a variant that returns what the queries that succeeded have read
FetchNotesKeepingPartial(d, u, failed) ==
  (IF "publicNotes" \in failed THEN <<>>
   ELSE Tagged(OrderByUpdatedAtDesc(d.publicNotes), TRUE))
    \o (IF "privateNotes" \in failed THEN <<>>
        ELSE Tagged(OrderByUpdatedAtDesc(d.userNotes[u]), FALSE))

\* fetchNotes(userId)
FetchNotesArray(d, u, failed) ==
  IF failed \cap {"privateNotes", "publicNotes"} # {} THEN <<>>
  ELSE Tagged(OrderByUpdatedAtDesc(d.publicNotes), TRUE)
         \o Tagged(OrderByUpdatedAtDesc(d.userNotes[u]), FALSE)

\* fetchPublicCategories()
FetchPublicCategories(d, failed) ==
  IF "publicCategories" \in failed THEN <<>>
  ELSE Tagged(OrderByCreatedAtAsc(d.publicCategories), TRUE)

\* fetchPublicNotes()
FetchPublicNotes(d, failed) ==
  IF "publicNotes" \in failed THEN <<>>
  ELSE Tagged(OrderByUpdatedAtDesc(d.publicNotes), TRUE)

\* ------------------------------------------------------ the session's state
Range(s) == {s[i] : i \in 1..Len(s)}

\* array.find(c => c.id === id); NoCategory for undefined
FindCategory(id) ==
  IF \E i \in 1..Len(categories) : categories[i].id = id
  THEN categories[CHOOSE i \in 1..Len(categories) :
                    /\ categories[i].id = id
                    /\ \A j \in 1..(i - 1) : categories[j].id # id]
  ELSE NoCategory

\* categories.find(c => c.id !== id): the first other category
FallbackCat(id) ==
  IF \E i \in 1..Len(categories) : categories[i].id # id
  THEN categories[CHOOSE i \in 1..Len(categories) :
                    /\ categories[i].id # id
                    /\ \A j \in 1..(i - 1) : categories[j].id = id]
  ELSE NoCategory

\* notes.filter(n => activeCategoryId ? n.categoryId === activeCategoryId : true)
FilteredNotes ==
  {n \in Range(notes) : activeCategoryId # NoId => n.categoryId = activeCategoryId}

\* the views render once the load step has completed; a behaviour is
\* followed up to its last handler
Ready == ~isLoadingData /\ handled < MaxHandlers
SignedIn == user \in Users

\* a handler that calls the store may run
CanHandle == Ready /\ SignedIn

\* the record of the handler that begins now
Handling(op, id, stores, status) ==
  [NoHandler EXCEPT !.op = op, !.id = id, !.stores = stores, !.status = status,
                    !.pre = db]

\* Date.now() read by the session after an awaited store call whose own
\* Date.now() returned t: the same millisecond or a later one
ClientTimes(t) == {t, t + 1}

\* ------------------------------------------------------------- load steps
\* AuthenticatedApp's effect: loadData() for the signed-in user
LoadData(u, failed) ==
  /\ isLoadingData /\ user = Undef
  /\ user' = u
  /\ categories' = FetchCategoriesArray(db, u, failed)
  /\ notes' = FetchNotesArray(db, u, failed)
  /\ isLoadingData' = FALSE
  /\ handler' = [Handling("loadData", NoId, <<"fetchCategories", "fetchNotes">>, "ok")
                   EXCEPT !.failed = failed]
  /\ UNCHANGED <<view, activeCategoryId, activeNote, handled, timeouts, editorCreates, storeVars>>

\* GuestApp's effect: loadPublicData()
LoadPublicData(failed) ==
  /\ isLoadingData /\ user = Undef
  /\ user' = Guest
  /\ categories' = FetchPublicCategories(db, failed)
  /\ notes' = FetchPublicNotes(db, failed)
  /\ isLoadingData' = FALSE
  /\ handler' = [Handling("loadPublicData", NoId,
                          <<"fetchPublicCategories", "fetchPublicNotes">>, "ok")
                   EXCEPT !.failed = failed]
  /\ UNCHANGED <<view, activeCategoryId, activeNote, handled, timeouts, editorCreates, storeVars>>

\* -------------------------------------------------------------- navigation
\* handleSelectCategory(id), from the dashboard's category list
HandleSelectCategory(id) ==
  /\ Ready /\ view = "DASHBOARD"
  /\ id \in Ids(Range(categories))
  /\ activeCategoryId' = id
  /\ view' = "CATEGORY_DETAIL"
  /\ UNCHANGED <<user, activeNote, notes, categories, isLoadingData, handled, handler,
                 timeouts, editorCreates, storeVars>>

\* the dashboard's onAddCategory
OnAddCategory ==
  /\ Ready /\ SignedIn /\ view = "DASHBOARD"
  /\ activeCategoryId' = NoId
  /\ view' = "CATEGORY_EDITOR"
  /\ UNCHANGED <<user, activeNote, notes, categories, isLoadingData, handled, handler,
                 timeouts, editorCreates, storeVars>>

\* onViewNote: from the dashboard with the note's category, from the category
\* detail with one of the filtered notes
OnViewNote(note) ==
  /\ Ready
  /\ \/ /\ view = "DASHBOARD"
        /\ note \in Range(notes)
        /\ activeCategoryId' = note.categoryId
     \/ /\ view = "CATEGORY_DETAIL"
        /\ FindCategory(activeCategoryId) # NoCategory
        /\ note \in FilteredNotes
        /\ UNCHANGED activeCategoryId
  /\ activeNote' = note
  /\ view' = "NOTE_VIEWER"
  /\ UNCHANGED <<user, notes, categories, isLoadingData, handled, handler, timeouts,
                 editorCreates, storeVars>>

\* the category detail's onEditCategory(c)
OnEditCategory ==
  /\ Ready /\ SignedIn /\ view = "CATEGORY_DETAIL"
  /\ FindCategory(activeCategoryId) # NoCategory
  /\ view' = "CATEGORY_EDITOR"
  /\ UNCHANGED <<user, activeCategoryId, activeNote, notes, categories, isLoadingData,
                 handled, handler, timeouts,
                 editorCreates, storeVars>>

\* onEditNote(note) of the category detail, onEdit of the viewer
OnEditNote(note) ==
  /\ Ready /\ SignedIn
  /\ \/ /\ view = "CATEGORY_DETAIL"
        /\ FindCategory(activeCategoryId) # NoCategory
        /\ note \in FilteredNotes
     \/ /\ view = "NOTE_VIEWER"
        /\ note = activeNote /\ note # NoNote
  /\ activeNote' = note
  /\ view' = "NOTE_EDITOR"
  /\ editorCreates' = 0
  /\ UNCHANGED <<user, activeCategoryId, notes, categories, isLoadingData, handled,
                 handler, timeouts, storeVars>>

\* handleCreateNote, from the floating button
HandleCreateNote ==
  /\ Ready /\ SignedIn
  /\ view \in {"DASHBOARD", "CATEGORY_DETAIL"} /\ Len(categories) > 0
  /\ activeNote' = NoNote
  /\ activeCategoryId' = IF activeCategoryId = NoId THEN categories[1].id
                         ELSE activeCategoryId
  /\ view' = "NOTE_EDITOR"
  /\ editorCreates' = 0
  /\ UNCHANGED <<user, notes, categories, isLoadingData, handled, handler, timeouts,
                 storeVars>>

\* onBack of the category detail and of the viewer, onCancel of the editors
OnBack ==
  /\ Ready
  /\ view \in {"CATEGORY_DETAIL", "NOTE_VIEWER", "NOTE_EDITOR", "CATEGORY_EDITOR"}
  /\ view' = CASE view = "CATEGORY_DETAIL" -> "DASHBOARD"
               [] view = "NOTE_VIEWER" -> "CATEGORY_DETAIL"
               [] view = "NOTE_EDITOR" ->
                    IF activeNote # NoNote THEN "NOTE_VIEWER" ELSE "CATEGORY_DETAIL"
               [] view = "CATEGORY_EDITOR" ->
                    IF activeCategoryId # NoId THEN "CATEGORY_DETAIL" ELSE "DASHBOARD"
  /\ UNCHANGED <<user, activeCategoryId, activeNote, notes, categories, isLoadingData,
                 handled, handler, timeouts,
                 editorCreates, storeVars>>

\* --------------------------------------------------------------- handlers
\* handleSaveCategory(data) without a category under edit: addCategory, and
\* the new category is appended as {id, ...data}; with one: updateCategory
\* of {...catToUpdate, ...data}; an error of the store is caught. `rejects`
\* says that the awaited write is rejected
HandleSaveCategory(data, rejects) ==
  LET catToUpdate == FindCategory(activeCategoryId)
      category == [catToUpdate EXCEPT !.name = data.name, !.color = data.color,
                                      !.icon = data.icon]
      target == IF category.isPublic THEN db.publicCategories
                ELSE db.userCategories[user]
      updated == /\ ~rejects
                 /\ UpdateCategoryAllowed(category, IsAdmin(user))
                 /\ category.id \in Ids(target)
  IN /\ CanHandle /\ view = "CATEGORY_EDITOR"
     /\ data \in (IF activeCategoryId # NoId THEN EditedCategoryPayloads
                  ELSE NewCategoryPayloads)
     /\ handled' = handled + 1
     /\ IF activeCategoryId # NoId
        THEN /\ catToUpdate # NoCategory
             /\ db' = IF updated THEN UpdateCategoryDb(db, user, category) ELSE db
             /\ categories' = IF updated
                              THEN [i \in 1..Len(categories) |->
                                      IF categories[i].id = activeCategoryId
                                      THEN category ELSE categories[i]]
                              ELSE categories
             /\ view' = IF updated THEN "CATEGORY_DETAIL" ELSE view
             /\ handler' = Handling("handleSaveCategory", activeCategoryId,
                                    <<"updateCategory">>,
                                    IF updated THEN "ok" ELSE "failed")
             /\ UNCHANGED <<nextId, now>>
        ELSE IF rejects
        THEN /\ handler' = Handling("handleSaveCategory", NoId, <<"addCategory">>, "failed")
             /\ UNCHANGED <<db, nextId, now, categories, view>>
        ELSE /\ now' = now + 1
             /\ nextId' = nextId + 1
             /\ db' = AddCategoryDb(db, user, data, nextId, now')
             /\ categories' = Append(categories,
                                [NoCategory EXCEPT !.id = nextId, !.name = data.name,
                                                   !.color = data.color, !.icon = data.icon])
             /\ view' = "DASHBOARD"
             /\ handler' = Handling("handleSaveCategory", nextId, <<"addCategory">>, "ok")
     /\ UNCHANGED <<user, activeCategoryId, activeNote, notes, isLoadingData, timeouts,
                    editorCreates, calls, call>>

\* the store calls of handleDeleteCategory
DeleteCategoryCalls == {"migrateNotesToCategory", "deleteCategory"}

\* handleDeleteCategory(id), from the editor of an existing category: the
\* notes go to the first other category when there is one, and the
\* category is deleted from the caller's private collection and from the
\* array. `rejected` names the store call that is rejected, if one is, and
\* `done` the updates migrateNotesToCategory has applied; nothing catches
\* the error, and the statements after the rejected call do not run
HandleDeleteCategory(rejected, done) ==
  LET id == activeCategoryId
      fallbackCat == FallbackCat(id)
      found == NotesOfCategory(db.userNotes[user], id)
      migrated == IF fallbackCat # NoCategory
                  THEN MigrateDb(db, user, done, fallbackCat.id)
                  ELSE db
      moved == fallbackCat # NoCategory /\ rejected # "migrateNotesToCategory"
      deleted == rejected = "none"
  IN /\ CanHandle /\ view = "CATEGORY_EDITOR"
     /\ FindCategory(id) # NoCategory
     /\ Len(categories) > 0
     /\ rejected \in DeleteCategoryCalls \cup {"none"}
     /\ rejected = "migrateNotesToCategory" => fallbackCat # NoCategory
     /\ done \subseteq found
     /\ rejected # "migrateNotesToCategory" => done = found
     /\ handled' = handled + 1
     /\ db' = IF deleted THEN DeleteCategoryDb(migrated, user, id) ELSE migrated
     /\ notes' = IF moved
                 THEN [i \in 1..Len(notes) |->
                         IF notes[i].categoryId = id
                         THEN [notes[i] EXCEPT !.categoryId = fallbackCat.id]
                         ELSE notes[i]]
                 ELSE notes
     /\ categories' = IF deleted THEN SelectSeq(categories, LAMBDA c : c.id # id)
                      ELSE categories
     /\ activeCategoryId' = IF deleted THEN NoId ELSE activeCategoryId
     /\ view' = IF deleted THEN "DASHBOARD" ELSE view
     /\ handler' = [Handling("handleDeleteCategory", id,
                             IF fallbackCat = NoCategory THEN <<"deleteCategory">>
                             ELSE IF rejected = "migrateNotesToCategory"
                             THEN <<"migrateNotesToCategory">>
                             ELSE <<"migrateNotesToCategory", "deleteCategory">>,
                             IF deleted THEN "ok" ELSE "failed")
                      EXCEPT !.fallback = fallbackCat.id]
     /\ UNCHANGED <<user, activeNote, isLoadingData, timeouts, editorCreates,
                    nextId, now, calls, call>>

\* a variant that keeps the id and isPublic the payload came with
NewNoteFromPayload(noteData, id, isPublic, clientNow) ==
  [noteData EXCEPT !.createdAt = clientNow, !.updatedAt = clientNow]

\* handleSaveNote's newNote: {id: result.id, ...noteData, isPublic:
\* result.isPublic, createdAt: Date.now(), updatedAt: Date.now()}
NewNote(noteData, id, isPublic, clientNow) ==
  [noteData EXCEPT !.id = id, !.isPublic = isPublic,
                   !.createdAt = clientNow, !.updatedAt = clientNow]

\* handleSaveNote(data), from the note editor: saveNote of the payload with
\* the active category, the active note's id and isPublic; then the array
\* is patched with the session's own Date.now(), and a timer is set that
\* will show the category or the dashboard; the editor stays until it fires
HandleSaveNote(data, rejects) ==
  LET currentCategory == FindCategory(activeCategoryId)
      categoryIsPublic == currentCategory.isPublic
      noteData == [NoNote EXCEPT
                     !.title = data.title, !.content = data.content,
                     !.imageUrl = data.imageUrl, !.images = data.images,
                     !.tags = data.tags,
                     !.categoryId = IF activeCategoryId # NoId THEN activeCategoryId
                                    ELSE IF Len(categories) > 0 THEN categories[1].id
                                    ELSE NoId,
                     !.id = activeNote.id, !.isPublic = activeNote.isPublic]
      create == noteData.id = NoId
      shouldBePublic == ShouldBePublic(IsAdmin(user), categoryIsPublic)
      target == IF noteData.isPublic THEN db.publicNotes ELSE db.userNotes[user]
      saved == /\ ~rejects
               /\ create \/ (UpdateNoteAllowed(noteData, IsAdmin(user))
                               /\ noteData.id \in Ids(target))
  IN /\ CanHandle /\ view = "NOTE_EDITOR"
     /\ data \in (IF create THEN NewNotePayloads ELSE EditedNotePayloads)
     /\ handled' = handled + 1
     /\ handler' = Handling("handleSaveNote", IF saved /\ create THEN nextId ELSE noteData.id,
                            <<"saveNote">>, IF saved THEN "ok" ELSE "failed")
     /\ IF ~saved
        THEN UNCHANGED <<db, nextId, now, notes, timeouts, editorCreates>>
        ELSE \E clientNow \in ClientTimes(now + 1) :
               /\ now' = clientNow
               /\ timeouts' = Append(timeouts, IF activeCategoryId # NoId
                                               THEN "CATEGORY_DETAIL" ELSE "DASHBOARD")
               /\ IF create
                  THEN /\ nextId' = nextId + 1
                       /\ editorCreates' = editorCreates + 1
                       /\ db' = CreateNoteDb(db, user, noteData, shouldBePublic,
                                             nextId, now + 1)
                       /\ notes' = <<NewNote(noteData, nextId, shouldBePublic, clientNow)>>
                                      \o notes
                  ELSE /\ nextId' = nextId
                       /\ editorCreates' = editorCreates
                       /\ db' = UpdateNoteDb(db, user, noteData, now + 1)
                       /\ notes' = [i \in 1..Len(notes) |->
                                      IF notes[i].id = activeNote.id
                                      THEN [notes[i] EXCEPT
                                              !.title = data.title, !.content = data.content,
                                              !.imageUrl = data.imageUrl,
                                              !.images = data.images, !.tags = data.tags,
                                              !.updatedAt = clientNow]
                                      ELSE notes[i]]
     /\ UNCHANGED <<user, view, activeCategoryId, activeNote, categories, isLoadingData,
                    calls, call>>

\* the callback of handleSaveNote's setTimeout, 1500 ms after the save:
\* setView of the view computed when the note was saved
SetViewAfterSave ==
  /\ Ready /\ timeouts # <<>>
  /\ view' = Head(timeouts)
  /\ timeouts' = Tail(timeouts)
  /\ UNCHANGED <<user, activeCategoryId, activeNote, notes, categories, isLoadingData,
                 handled, handler, editorCreates, storeVars>>

\* array.find(n => n.id === id); NoNote for undefined
FindNote(id) ==
  IF \E i \in 1..Len(notes) : notes[i].id = id
  THEN notes[CHOOSE i \in 1..Len(notes) :
               /\ notes[i].id = id
               /\ \A j \in 1..(i - 1) : notes[j].id # id]
  ELSE NoNote

\* what handleDeleteNote and handleDeleteNoteDirectly share: deleteNote with
\* the isPublic of the in-memory note, and the note leaves the array when
\* the call has resolved; an error is caught
DeleteNoteHandled(op, id, rejects) ==
  LET noteToDelete == FindNote(id)
      deleted == ~rejects /\ DeleteNoteAllowed(noteToDelete.isPublic, IsAdmin(user))
  IN /\ handled' = handled + 1
     /\ db' = IF deleted THEN DeleteNoteDb(db, user, id, noteToDelete.isPublic) ELSE db
     /\ notes' = IF deleted THEN SelectSeq(notes, LAMBDA n : n.id # id) ELSE notes
     /\ handler' = Handling(op, id, <<"deleteNote">>, IF deleted THEN "ok" ELSE "failed")

\* handleDeleteNote(id), the editor's onDelete of the note under edit
HandleDeleteNote(rejects) ==
  /\ CanHandle /\ view = "NOTE_EDITOR"
  /\ activeNote # NoNote
  /\ DeleteNoteHandled("handleDeleteNote", activeNote.id, rejects)
  /\ view' = IF handler'.status = "ok"
             THEN (IF activeCategoryId # NoId THEN "CATEGORY_DETAIL" ELSE "DASHBOARD")
             ELSE view
  /\ UNCHANGED <<user, activeCategoryId, activeNote, categories, isLoadingData, timeouts,
                 editorCreates, nextId, now, calls, call>>

\* handleDeleteNoteDirectly(id): onDeleteNote of the category detail, and the
\* viewer's onDelete, which shows the category without awaiting the call
HandleDeleteNoteDirectly(id, rejects) ==
  /\ CanHandle
  /\ \/ /\ view = "CATEGORY_DETAIL"
        /\ FindCategory(activeCategoryId) # NoCategory
        /\ id \in Ids(FilteredNotes)
     \/ /\ view = "NOTE_VIEWER"
        /\ activeNote # NoNote /\ id = activeNote.id
  /\ DeleteNoteHandled("handleDeleteNoteDirectly", id, rejects)
  /\ view' = "CATEGORY_DETAIL"
  /\ UNCHANGED <<user, activeCategoryId, activeNote, categories, isLoadingData, timeouts,
                 editorCreates, nextId, now, calls, call>>

\* the content the viewer saves after a highlight
HighlightedContent == "c3"

\* the category the viewer is given: the active one, else the first
ViewCategory ==
  IF FindCategory(activeCategoryId) # NoCategory THEN FindCategory(activeCategoryId)
  ELSE IF Len(categories) > 0 THEN categories[1] ELSE NoCategory

\* the viewer's onSaveHighlights(content): saveNote of {...activeNote, content},
\* the whole in-memory note, then array and active note are patched
OnSaveHighlights(content, rejects) ==
  LET note == [activeNote EXCEPT !.content = content]
      target == IF note.isPublic THEN db.publicNotes ELSE db.userNotes[user]
      saved == /\ ~rejects
               /\ UpdateNoteAllowed(note, IsAdmin(user)) /\ note.id \in Ids(target)
  IN /\ CanHandle /\ view = "NOTE_VIEWER"
     /\ activeNote # NoNote
     /\ handled' = handled + 1
     /\ handler' = Handling("onSaveHighlights", note.id, <<"saveNote">>,
                            IF saved THEN "ok" ELSE "failed")
     /\ IF ~saved
        THEN UNCHANGED <<db, now, notes, activeNote>>
        ELSE \E clientNow \in ClientTimes(now + 1) :
               /\ now' = clientNow
               /\ db' = UpdateNoteDb(db, user, note, now + 1)
               /\ notes' = [i \in 1..Len(notes) |->
                              IF notes[i].id = activeNote.id
                              THEN [notes[i] EXCEPT !.content = content,
                                                    !.updatedAt = clientNow]
                              ELSE notes[i]]
               /\ activeNote' = [activeNote EXCEPT !.content = content]
     /\ UNCHANGED <<user, view, activeCategoryId, categories, isLoadingData, timeouts,
                    editorCreates, nextId, calls, call>>

\* toggleNotePublish as one awaited call of the session: `writes` of its
\* awaited writes succeed, the copy and then the delete of the source
ToggleNoteWrites(note, makePublic) == IF InSource(note.isPublic, makePublic) THEN 2 ELSE 1

ToggleNoteRun(d, u, note, makePublic, id, t, writes) ==
  LET copied == AddToDestination(d, u, makePublic, NoteCopy(u, note, makePublic, id, t + 1))
  IN IF writes = 0 THEN d
     ELSE IF writes = 1 THEN copied
     ELSE DeleteFromSource(copied, u, makePublic, note.id)

\* the viewer's onTogglePublish(note, !note.isPublic), given to admins, shown
\* for notes of a public category: toggleNotePublish, then the note takes the
\* new id and isPublic in the array and as active note; an error goes to
\* the viewer's catch
OnToggleNotePublish(writes) ==
  LET note == activeNote
      makePublic == ~note.isPublic
      ok == writes = ToggleNoteWrites(note, makePublic)
      updatedNote == [note EXCEPT !.id = nextId, !.isPublic = makePublic]
  IN /\ CanHandle /\ view = "NOTE_VIEWER"
     /\ IsAdmin(user) /\ note # NoNote /\ ViewCategory.isPublic
     /\ writes \in 0..ToggleNoteWrites(note, makePublic)
     /\ handled' = handled + 1
     /\ db' = ToggleNoteRun(db, user, note, makePublic, nextId, now, writes)
     /\ nextId' = IF writes > 0 THEN nextId + 1 ELSE nextId
     /\ now' = IF writes > 0 THEN now + 1 ELSE now
     /\ notes' = IF ok THEN [i \in 1..Len(notes) |->
                               IF notes[i].id = note.id THEN updatedNote ELSE notes[i]]
                 ELSE notes
     /\ activeNote' = IF ok THEN updatedNote ELSE activeNote
     /\ handler' = Handling("onTogglePublish", note.id, <<"toggleNotePublish">>,
                            IF ok THEN "ok" ELSE "failed")
     /\ UNCHANGED <<user, view, activeCategoryId, categories, isLoadingData, timeouts,
                    editorCreates, calls, call>>

\* the run of toggleCategoryPublish's loop with `run.writes` awaited writes
\* left before one is rejected: per note the copy, then the delete
RECURSIVE MoveNotes(_, _, _, _, _)
MoveNotes(run, u, docs, newCategoryId, makePublic) ==
  IF docs = {} \/ run.writes = 0 THEN run
  ELSE LET noteDoc == CHOOSE n \in docs : \A m \in docs : n.id <= m.id
           copied == [run EXCEPT
                        !.db = AddToDestination(@, u, makePublic,
                                 MigratedNoteCopy(u, noteDoc, newCategoryId, makePublic,
                                                  run.nextId, run.now + 1)),
                        !.nextId = @ + 1, !.now = @ + 1,
                        !.migratedNoteIds = @ \cup {<<noteDoc.id, run.nextId>>},
                        !.writes = @ - 1]
           deleted == [copied EXCEPT
                         !.db = DeleteFromSource(@, u, makePublic, noteDoc.id),
                         !.writes = @ - 1]
       IN IF copied.writes = 0 THEN copied
          ELSE MoveNotes(deleted, u, docs \ {noteDoc}, newCategoryId, makePublic)

\* the awaited writes of a toggleCategoryPublish that moves the category
ToggleCategoryWrites(category, makePublic) ==
  2 + 2 * Cardinality(NotesToMigrate(user, category, makePublic))

\* toggleCategoryPublish as one awaited call of the session, of which
\* `writes` awaited writes succeed: the copy of the category, the notes, the
\* delete of the source category
ToggleCategoryRun(d, u, category, makePublic, id, t, writes) ==
  LET start == [db |-> d, nextId |-> id, now |-> t, migratedNoteIds |-> {},
                writes |-> writes]
      copied == [start EXCEPT
                   !.db = AddCategoryCopy(@, u, makePublic,
                            CategoryCopy(u, category, makePublic, id, t + 1)),
                   !.nextId = @ + 1, !.now = @ + 1, !.writes = @ - 1]
      moved == MoveNotes(copied, u, NotesToMigrate(u, category, makePublic), id, makePublic)
  IN IF writes = 0 THEN start
     ELSE IF moved.writes = 0 THEN moved
     ELSE [moved EXCEPT !.db = DeleteSourceCategory(@, u, makePublic, category.id),
                        !.writes = @ - 1]

\* the category editor's onTogglePublish(cat, !cat.isPublic), given to
\* admins: toggleCategoryPublish, then the category takes the new id in the
\* array, every in-memory note of the category takes the new category id and
\* isPublic, the migrated ones their new id, and the new id becomes active
OnToggleCategoryPublish(writes) ==
  LET cat == FindCategory(activeCategoryId)
      makePublic == ~cat.isPublic
      ok == writes = ToggleCategoryWrites(cat, makePublic)
      result == ToggleCategoryRun(db, user, cat, makePublic, nextId, now, writes)
      NewNoteId(id) == (CHOOSE pair \in result.migratedNoteIds : pair[1] = id)[2]
  IN /\ CanHandle /\ view = "CATEGORY_EDITOR"
     /\ IsAdmin(user) /\ activeCategoryId # NoId /\ cat # NoCategory
     /\ writes \in 0..ToggleCategoryWrites(cat, makePublic)
     /\ handled' = handled + 1
     /\ db' = result.db
     /\ nextId' = result.nextId
     /\ now' = result.now
     /\ categories' = IF ok THEN [i \in 1..Len(categories) |->
                                    IF categories[i].id = cat.id
                                    THEN [cat EXCEPT !.id = nextId, !.isPublic = makePublic]
                                    ELSE categories[i]]
                      ELSE categories
     /\ notes' = IF ok
                 THEN [i \in 1..Len(notes) |->
                         IF notes[i].categoryId = cat.id
                         THEN IF \E pair \in result.migratedNoteIds : pair[1] = notes[i].id
                              THEN [notes[i] EXCEPT !.id = NewNoteId(notes[i].id),
                                                    !.categoryId = nextId,
                                                    !.isPublic = makePublic]
                              ELSE [notes[i] EXCEPT !.categoryId = nextId,
                                                    !.isPublic = makePublic]
                         ELSE notes[i]]
                 ELSE notes
     /\ activeCategoryId' = IF ok THEN nextId ELSE activeCategoryId
     /\ handler' = Handling("onToggleCategoryPublish", cat.id, <<"toggleCategoryPublish">>,
                            IF ok THEN "ok" ELSE "failed")
     /\ UNCHANGED <<user, view, activeNote, isLoadingData, timeouts, editorCreates,
                    calls, call>>

\* the most awaited writes a toggle of the session makes
MaxWrites == 2 + 2 * 3

outsideSession == <<aiVars, adminVars, viewerVars>>

NextApp ==
  \/ \E u \in Users, failed \in SUBSET Queries : LoadData(u, failed) /\ UNCHANGED outsideSession
  \/ \E failed \in SUBSET Queries : LoadPublicData(failed) /\ UNCHANGED outsideSession
  \/ \E id \in 1..nextId : HandleSelectCategory(id) /\ UNCHANGED outsideSession
  \/ OnAddCategory /\ UNCHANGED outsideSession
  \/ \E note \in Range(notes) : OnViewNote(note) /\ UNCHANGED outsideSession
  \/ OnEditCategory /\ UNCHANGED outsideSession
  \/ \E note \in Range(notes) \cup {activeNote} : OnEditNote(note) /\ UNCHANGED outsideSession
  \/ HandleCreateNote /\ UNCHANGED outsideSession
  \/ OnBack /\ UNCHANGED outsideSession
  \/ \E data \in NewCategoryPayloads \cup EditedCategoryPayloads, rejects \in BOOLEAN :
       HandleSaveCategory(data, rejects) /\ UNCHANGED outsideSession
  \/ \E rejected \in DeleteCategoryCalls \cup {"none"}, done \in SUBSET UNION {db.userNotes[u] : u \in Users} :
       HandleDeleteCategory(rejected, done) /\ UNCHANGED outsideSession
  \/ \E data \in NewNotePayloads \cup EditedNotePayloads, rejects \in BOOLEAN :
       HandleSaveNote(data, rejects) /\ UNCHANGED outsideSession
  \/ SetViewAfterSave /\ UNCHANGED outsideSession
  \/ \E rejects \in BOOLEAN : HandleDeleteNote(rejects) /\ UNCHANGED outsideSession
  \/ \E id \in 1..nextId, rejects \in BOOLEAN :
       HandleDeleteNoteDirectly(id, rejects) /\ UNCHANGED outsideSession
  \/ \E rejects \in BOOLEAN :
       OnSaveHighlights(HighlightedContent, rejects) /\ UNCHANGED outsideSession
  \/ \E writes \in 0..2 : OnToggleNotePublish(writes) /\ UNCHANGED outsideSession
  \/ \E writes \in 0..MaxWrites : OnToggleCategoryPublish(writes) /\ UNCHANGED outsideSession

\* a session starts over the empty store or the shared one
InitSession == Init /\ db \in {EmptyDb, SharedDb}

SpecApp == InitSession /\ [][NextApp]_vars

\* ------------------------------------------------------------ the viewer
\* how many highlight edits one behaviour makes
MaxEdits == 2

\* the content the DOM holds after the first, second, ... highlight edit
Highlights == <<"h1", "h2", "h3", "h4">>

\* the shared store after u1 has added note 9 to private category 1
ViewerDb ==
  CreateNoteDb(SharedDb, "u1",
               [NoNote EXCEPT !.title = "t2", !.content = "c2", !.tags = "tagB",
                              !.categoryId = 1],
               ShouldBePublic(IsAdmin("u1"), FALSE), 9, 9)

InitViewerSession ==
  /\ db = ViewerDb /\ nextId = 10 /\ now = 9
  /\ calls = 0 /\ call = IdleCall
  /\ InitAI /\ InitAdmin /\ InitApp /\ InitViewer

\* the content initialisation effect, on [note.id, note.content]: the DOM
\* takes the content of the note now shown when either has changed
ContentEffect(before, after) ==
  IF after.id # before.id \/ after.content # before.content
  THEN [of |-> after.id, text |-> after.content]
  ELSE innerHTML

\* the same effect over two renders in a row, when the state updates of one
\* continuation are not batched into one render
ContentEffectTwice(before, middle, after) ==
  IF after.id # middle.id \/ after.content # middle.content
  THEN [of |-> after.id, text |-> after.content]
  ELSE ContentEffect(before, middle)

\* an onSaveHighlights call in flight: who issued it, the activeNote its
\* closure holds, the content it was given and the note that content was
\* initialised from, and where saveAndNavigate goes when it resolves
Save(by, note, target) ==
  [by |-> by, note |-> note, text |-> innerHTML.text, of |-> innerHTML.of,
   target |-> target]

\* the cleanup of the effect on [isGuest, onSaveHighlights], which runs at
\* every render of the session with the callback of the render before:
\* onSaveHighlights(contentRef.current.innerHTML) when hasChangesRef is set
Cleanup(flush) == IF flush THEN <<Save("cleanup", activeNote, NoNote)>> ELSE <<>>

\* the viewer is shown to a signed-in user
Viewing == ~isLoadingData /\ SignedIn /\ view = "NOTE_VIEWER" /\ activeNote # NoNote

\* onViewNote mounts the viewer: fresh refs, the content effect runs
MountViewer(note) ==
  /\ OnViewNote(note)
  /\ SignedIn /\ edits = {} /\ saves = <<>>
  /\ innerHTML' = [of |-> note.id, text |-> note.content]
  /\ hasChanges' = FALSE
  /\ saveTimeout' = NoTimeout
  /\ UNCHANGED <<saves, edits, written>>

\* applyFormat(command): the selection is formatted in the DOM, then
\* scheduleAutoSave sets hasChangesRef and replaces the debounce timer by one
\* whose callback holds the onSaveHighlights of this render
ApplyFormat ==
  /\ Viewing /\ Cardinality(edits) < MaxEdits
  /\ innerHTML' = [innerHTML EXCEPT !.text = Highlights[Cardinality(edits) + 1]]
  /\ hasChanges' = TRUE
  /\ saveTimeout' = [set |-> TRUE, note |-> activeNote]
  /\ edits' = edits \cup {[id |-> activeNote.id, n |-> Cardinality(edits) + 1,
                           text |-> innerHTML'.text]}
  /\ UNCHANGED <<saves, written, appVars, storeVars>>

\* the debounce timer fires, 1000 ms after the last edit: its callback
\* calls the onSaveHighlights it holds with the content the DOM has now
AutoSaveFires ==
  /\ Viewing /\ saveTimeout.set /\ handled < MaxHandlers
  /\ saves' = Append(saves, Save("timer", saveTimeout.note, NoNote))
  /\ saveTimeout' = NoTimeout
  /\ handled' = handled + 1
  /\ UNCHANGED <<innerHTML, hasChanges, edits, written, user, view, activeCategoryId,
                 activeNote, notes, categories, isLoadingData, handler, timeouts,
                 editorCreates, storeVars>>

\* saveAndNavigate(targetNote), from the arrows, a swipe or a dot: with
\* hasChangesRef set the save is issued and awaited, else onNavigate runs
\* at once; the debounce timer is left as it is
SaveAndNavigate(targetNote) ==
  /\ Viewing /\ targetNote \in FilteredNotes
  /\ IF hasChanges
     THEN /\ handled < MaxHandlers
          /\ saves' = Append(saves, Save("navigate", activeNote, targetNote))
          /\ handled' = handled + 1
          /\ UNCHANGED <<activeNote, innerHTML>>
     ELSE /\ activeNote' = targetNote
          /\ innerHTML' = ContentEffect(activeNote, targetNote)
          /\ UNCHANGED <<saves, handled>>
  /\ UNCHANGED <<hasChanges, saveTimeout, edits, written, user, view, activeCategoryId,
                 notes, categories, isLoadingData, handler, timeouts, editorCreates,
                 storeVars>>

\* the oldest save in flight ends (the store acknowledges the writes of a
\* client in the order they were made). onSaveHighlights: saveNote of {...activeNote,
\* content} with the activeNote of its closure, then the note of that id is
\* patched in the array and the content of whatever note is active now is
\* replaced. Then the caller goes on: the timer's callback and saveAndNavigate
\* clear hasChangesRef, saveAndNavigate calls onNavigate. The session renders
\* again: the cleanup sees hasChangesRef as it was before the caller went on
\* or as it is after (`flush`), and the content effect runs, once when the
\* updates of onSaveHighlights and of its caller make one render, else once
\* for each. A save that fails changes nothing
SaveResolves(rejects, flush) ==
  LET s == Head(saves)
      note == [s.note EXCEPT !.content = s.text]
      target == IF note.isPublic THEN db.publicNotes ELSE db.userNotes[user]
      refused == ~(UpdateNoteAllowed(note, IsAdmin(user)) /\ note.id \in Ids(target))
      saved == ~rejects /\ ~refused
      mounted == view = "NOTE_VIEWER"
      patched == IF activeNote # NoNote THEN [activeNote EXCEPT !.content = s.text]
                 ELSE activeNote
      cleared == s.by \in {"timer", "navigate"}
  IN /\ saves # <<>>
     /\ written' = written \cup
          {[id |-> note.id, text |-> s.text, of |-> s.of,
            status |-> IF saved THEN "ok" ELSE IF rejects THEN "rejected" ELSE "refused"]}
     /\ IF ~saved
        THEN /\ flush = FALSE
             /\ saves' = Tail(saves)
             /\ UNCHANGED <<db, now, notes, activeNote, innerHTML, hasChanges, handled>>
        ELSE \E clientNow \in ClientTimes(now + 1) :
               /\ now' = clientNow
               /\ db' = UpdateNoteDb(db, user, note, now + 1)
               /\ notes' = [i \in 1..Len(notes) |->
                              IF notes[i].id = s.note.id
                              THEN [notes[i] EXCEPT !.content = s.text,
                                                    !.updatedAt = clientNow]
                              ELSE notes[i]]
               /\ activeNote' = IF s.by = "navigate" THEN s.target ELSE patched
               /\ flush => mounted /\ hasChanges /\ handled < MaxHandlers
               /\ (mounted /\ hasChanges /\ ~cleared) => flush
               /\ saves' = Tail(saves) \o Cleanup(flush)
               /\ handled' = IF flush THEN handled + 1 ELSE handled
               /\ hasChanges' = IF mounted /\ cleared THEN FALSE ELSE hasChanges
               /\ innerHTML' \in
                    IF ~mounted THEN {innerHTML}
                    ELSE {ContentEffect(activeNote, activeNote') :
                            x \in IF flush /\ cleared THEN {} ELSE {1}}
                         \cup {ContentEffectTwice(activeNote, patched, activeNote') :
                                 x \in IF hasChanges /\ ~flush THEN {} ELSE {1}}
     /\ UNCHANGED <<saveTimeout, edits, user, view, activeCategoryId, categories,
                    isLoadingData, handler, timeouts, editorCreates, nextId, calls, call>>

\* the viewer's handleTogglePublish: onTogglePublish(note, !note.isPublic)
\* with the note the viewer was given; when it has resolved the active note
\* has the new id, the session renders again, the cleanup runs and the
\* content effect puts note.content into the DOM
ViewerTogglePublish(writes) ==
  LET note == activeNote
      makePublic == ~note.isPublic
      ok == writes = ToggleNoteWrites(note, makePublic)
      updatedNote == [note EXCEPT !.id = nextId, !.isPublic = makePublic]
      flush == ok /\ hasChanges
  IN /\ Viewing /\ IsAdmin(user) /\ ViewCategory.isPublic
     /\ handled + (IF hasChanges THEN 1 ELSE 0) < MaxHandlers
     /\ writes \in 0..ToggleNoteWrites(note, makePublic)
     /\ handled' = handled + 1 + (IF flush THEN 1 ELSE 0)
     /\ db' = ToggleNoteRun(db, user, note, makePublic, nextId, now, writes)
     /\ nextId' = IF writes > 0 THEN nextId + 1 ELSE nextId
     /\ now' = IF writes > 0 THEN now + 1 ELSE now
     /\ notes' = IF ok THEN [i \in 1..Len(notes) |->
                               IF notes[i].id = note.id THEN updatedNote ELSE notes[i]]
                 ELSE notes
     /\ activeNote' = IF ok THEN updatedNote ELSE activeNote
     /\ innerHTML' = ContentEffect(activeNote, activeNote')
     /\ saves' = saves \o Cleanup(flush)
     /\ edits' = IF ok THEN {[e EXCEPT !.id = IF @ = note.id THEN nextId ELSE @] : e \in edits}
                 ELSE edits
     /\ handler' = Handling("onTogglePublish", note.id, <<"toggleNotePublish">>,
                            IF ok THEN "ok" ELSE "failed")
     /\ UNCHANGED <<hasChanges, saveTimeout, written, user, view, activeCategoryId,
                    categories, isLoadingData, timeouts, editorCreates, calls, call>>

\* onBack unmounts the viewer. The cleanup calls onSaveHighlights when
\* hasChangesRef is set and contentRef.current is not null, which depends on
\* whether the ref is detached before the cleanup runs (`flush`); the
\* debounce timer is not cleared, and its callback finds contentRef.current null
UnmountViewer(flush) ==
  /\ Viewing
  /\ flush => hasChanges /\ handled < MaxHandlers
  /\ view' = "CATEGORY_DETAIL"
  /\ saves' = saves \o Cleanup(flush)
  /\ handled' = IF flush THEN handled + 1 ELSE handled
  /\ saveTimeout' = NoTimeout
  /\ hasChanges' = FALSE
  /\ UNCHANGED <<innerHTML, edits, written, user, activeCategoryId, activeNote, notes,
                 categories, isLoadingData, handler, timeouts, editorCreates, storeVars>>

NextViewer ==
  \/ \E u \in Users : LoadData(u, {}) /\ UNCHANGED <<aiVars, adminVars, viewerVars>>
  \/ \E note \in Range(notes) : MountViewer(note) /\ UNCHANGED <<aiVars, adminVars>>
  \/ ApplyFormat /\ UNCHANGED <<aiVars, adminVars>>
  \/ AutoSaveFires /\ UNCHANGED <<aiVars, adminVars>>
  \/ \E targetNote \in Range(notes) : SaveAndNavigate(targetNote) /\ UNCHANGED <<aiVars, adminVars>>
  \/ \E rejects \in BOOLEAN, flush \in BOOLEAN :
       SaveResolves(rejects, flush) /\ UNCHANGED <<aiVars, adminVars>>
  \/ \E writes \in 0..2 : ViewerTogglePublish(writes) /\ UNCHANGED <<aiVars, adminVars>>
  \/ \E flush \in BOOLEAN : UnmountViewer(flush) /\ UNCHANGED <<aiVars, adminVars>>

SpecViewer == InitViewerSession /\ [][NextViewer]_vars

\* ================================================================ properties
\* the documents of all private partitions of a store
PrivateNotes(d) == UNION {d.userNotes[u] : u \in Users}
PrivateCategories(d) == UNION {d.userCategories[u] : u \in Users}
AllNotes(d) == PrivateNotes(d) \cup d.publicNotes
AllCategories(d) == PrivateCategories(d) \cup d.publicCategories

\* no note id and no category id is in a private and in the public partition
IdsExclusive(d) ==
  /\ Ids(PrivateNotes(d)) \cap Ids(d.publicNotes) = {}
  /\ Ids(PrivateCategories(d)) \cap Ids(d.publicCategories) = {}

\* no category that a stored note references is absent from both partitions
ReferencedCategoriesExist(d) ==
  \A n \in AllNotes(d) : n.categoryId \in Ids(AllCategories(d))

\* C1: partition exclusivity, as it applies to the toggles.  In every state of
\* a toggleNotePublish or toggleCategoryPublish call that began in a store
\* where no id was in both partitions and every referenced category existed,
\* intermediate states included, no note id and no category id is in both
\* partitions and no category that a stored note references is absent from both.
C1_TogglesKeepPartitionsExclusive ==
  (/\ call.op \in {"toggleNotePublish", "toggleCategoryPublish"}
   /\ IdsExclusive(call.pre) /\ ReferencedCategoriesExist(call.pre))
    => (IdsExclusive(db) /\ ReferencedCategoriesExist(db))

\* every note references a category of its own partition
NotesReferenceOwnPartition(d) ==
  /\ \A n \in d.publicNotes : n.categoryId \in Ids(d.publicCategories)
  /\ \A u \in Users : \A n \in d.userNotes[u] : n.categoryId \in Ids(d.userCategories[u])

C3_CreateVisibility ==
  (call.op = "saveNote" /\ call.note.id = NoId) =>
    LET u == call.userId
        pub == call.isAdmin /\ call.categoryIsPublic
    IN /\ call.status = "ok"
       /\ call.isPublic = pub
       /\ IF pub
          THEN /\ Ids(db.publicNotes) = Ids(call.pre.publicNotes) \cup {call.newId}
               /\ call.newId \notin Ids(call.pre.publicNotes)
               /\ db.userNotes = call.pre.userNotes
          ELSE /\ Ids(db.userNotes[u]) = Ids(call.pre.userNotes[u]) \cup {call.newId}
               /\ call.newId \notin Ids(call.pre.userNotes[u])
               /\ db.publicNotes = call.pre.publicNotes
               /\ \A v \in Users \ {u} : db.userNotes[v] = call.pre.userNotes[v]

\* a non-admin has created a note in a public category
C3_Witness ==
  /\ call.op = "saveNote" /\ call.note.id = NoId
  /\ ~call.isAdmin /\ call.categoryIsPublic
  /\ call.newId \in Ids(db.userNotes[call.userId])

\* the notes of any partition of store d that reference the category
Referencing(d, categoryId) == NotesOfCategory(AllNotes(d), categoryId)

\* toggleCategoryPublish(userId, cat, makePublic = true) on a private
\* category has completed without error
PublishedPrivateCategory ==
  /\ call.op = "toggleCategoryPublish" /\ Idle /\ call.status = "ok"
  /\ call.makePublic /\ ~call.category.isPublic
  /\ call.category.id \in Ids(call.pre.userCategories[call.userId])

\* C4: when toggleCategoryPublish(userId, cat, true) on a private category
\* completes without error, migratedNoteIds has exactly one entry for each
\* note that referenced cat.id before the call and no other entry, and each
\* mapped new id is a note of the public partition whose categoryId is newId.
C4_MigratedNoteIdsCoverReferencingNotes ==
  PublishedPrivateCategory =>
    /\ {e[1] : e \in call.migratedNoteIds} = Ids(Referencing(call.pre, call.category.id))
    /\ \A e, f \in call.migratedNoteIds : e[1] = f[1] => e = f
    /\ \A e \in call.migratedNoteIds :
         \E n \in db.publicNotes : n.id = e[2] /\ n.categoryId = call.newId

\* C5: after toggleCategoryPublish has moved a private category to public
\* without error, the old category id is in no private partition, no private
\* note of any user references the old category id, and every migrated note
\* is stored in the public partition with isPublic = true.
C5_PrivateCategoryMovedOut ==
  PublishedPrivateCategory =>
    /\ call.category.id \notin Ids(PrivateCategories(db))
    /\ NotesOfCategory(PrivateNotes(db), call.category.id) = {}
    /\ \A e \in call.migratedNoteIds :
         /\ e[2] \in Ids(db.publicNotes)
         /\ \A n \in AllNotes(db) : n.id = e[2] => n.isPublic

\* C6: after toggleNotePublish(userId, note, makePublic) with makePublic
\* different from note.isPublic has completed, the note read under newId in the
\* destination has the input's categoryId, title, content, images, imageUrl,
\* tags and createdAt, the flipped isPublic and a later updatedAt, and the
\* original id is no longer in the source partition.
C6_ToggledCopyEqualsInput ==
  (/\ call.op = "toggleNotePublish" /\ Idle /\ call.status = "ok"
   /\ call.makePublic # call.note.isPublic) =>
    LET u == call.userId
        note == call.note
        dest == IF call.makePublic THEN db.publicNotes ELSE db.userNotes[u]
        src == IF call.makePublic THEN db.userNotes[u] ELSE db.publicNotes
    IN /\ call.newId \in Ids(dest)
       /\ \A c \in dest : c.id = call.newId =>
            /\ c.categoryId = note.categoryId /\ c.title = note.title
            /\ c.content = note.content /\ c.images = note.images
            /\ c.imageUrl = note.imageUrl /\ c.tags = note.tags
            /\ c.createdAt = note.createdAt
            /\ c.isPublic = ~note.isPublic
            /\ c.updatedAt > note.updatedAt
       /\ note.id \notin Ids(src)

\* C7: toggleNotePublish with makePublic = true on a note that is already
\* public returns a result and leaves the store as it was: the public
\* partition holds as many documents as before the call.
C7_PublishingPublicNoteIsNoOp ==
  (call.op = "toggleNotePublish" /\ Idle /\ call.makePublic /\ call.note.isPublic) =>
    /\ call.status = "ok"
    /\ Cardinality(db.publicNotes) = Cardinality(call.pre.publicNotes)

\* C8: deleteCategory removes and changes no note; and after
\* migrateNotesToCategory(user, from, to) followed by deleteCategory(user, from),
\* every note that referenced from before the two calls references to and has
\* its original id, title and content.
C8_NotesSurviveCategoryDeletion ==
  call.op = "deleteCategory" =>
    /\ db.publicNotes = call.pre.publicNotes
    /\ db.userNotes = call.pre.userNotes
    /\ (/\ call.status = "ok"
        /\ call.after.op = "migrateNotesToCategory" /\ call.after.status = "ok"
        /\ call.after.userId = call.userId /\ call.after.fromCatId = call.fromCatId) =>
         \A n \in Referencing(call.after.pre, call.fromCatId) :
           \E m \in AllNotes(db) :
             /\ m.id = n.id /\ m.categoryId = call.after.toCatId
             /\ m.title = n.title /\ m.content = n.content

\* the call was refused for want of the admin role and wrote nothing
Denied == call.status = "permission-denied" /\ db = call.pre

\* C9: updateCategory on a public category, saveNote on an existing public
\* note and deleteNote on a public note each fail with a permission error when
\* isAdmin is not true, and the store is as it was before the call.
C9_PublicWritesNeedAdmin ==
  /\ (call.op = "updateCategory" /\ call.category.isPublic /\ ~call.isAdmin) => Denied
  /\ (call.op = "saveNote" /\ call.note.id # NoId /\ call.note.isPublic /\ ~call.isAdmin)
       => Denied
  /\ (call.op = "deleteNote" /\ call.note.isPublic /\ ~call.isAdmin) => Denied

\* a non-admin's updateCategory on a stored public category was refused
C9_Witness ==
  /\ call.op = "updateCategory" /\ ~call.isAdmin /\ call.category.isPublic
  /\ call.category.id \in Ids(db.publicCategories)
  /\ Denied

\* C10: AIService.enhance calls a provider only when its target resolves: a
\* providerType that is not registered fails as not configured whatever else
\* is registered, no providerType with an empty registry fails as no provider
\* configured, and in both cases no provider is called and no request is sent.
C10_EnhanceResolvesOrFails ==
  ai.op = "enhance" =>
    /\ (ai.providerType # "none" /\ ai.providerType \notin Registered) =>
         (ai.error = "not-configured" /\ ai.invoked = "none" /\ ai.requests = 0)
    /\ (ai.providerType = "none" /\ providers = <<>>) =>
         (ai.error = "no-provider-configured" /\ ai.invoked = "none" /\ ai.requests = 0)
    /\ ai.invoked # "none" =>
         /\ ai.invoked \in Registered
         /\ ai.providerType # "none" => ai.invoked = ai.providerType
    /\ ai.requests > 0 => ai.invoked # "none"

\* enhance was asked for a kind that is not registered while another is
C10_Witness ==
  /\ ai.op = "enhance" /\ ai.providerType = "chatgpt"
  /\ Registered = {"gemini"}
  /\ ai.error = "not-configured" /\ ai.invoked = "none" /\ ai.requests = 0

\* C11: over any interleaving of setupInitialAdmin, setAdminRole and
\* createUserProfile calls, at most one setupInitialAdmin call returns success.
C11_AtMostOneInitialAdmin == setupSuccesses <= 1

\* C12: createUserProfile is an idempotent upsert: a second call by the same
\* caller leaves the caller's profile (email, displayName, isAdmin, createdAt)
\* exactly as the first call left it.
C12_CreateUserProfileIdempotent ==
  \A a \in Accounts :
    (/\ fn[a].op \in {"createUserProfile", "clientCreateUserProfile"}
     /\ fn[a].again /\ fn[a].after.exists)
      => fn[a].after = fn[a].first

\* the stored document of this id, in whichever partition it is
StoredNote(d, id) == CHOOSE n \in AllNotes(d) : n.id = id
StoredCategory(d, id) == CHOOSE c \in AllCategories(d) : c.id = id

\* C14: the copy that toggleNotePublish or toggleCategoryPublish creates has
\* the ownerId the source document had, whoever performs the toggle.
C14_TogglesKeepOwner ==
  /\ (call.op = "toggleNotePublish" /\ call.newId \in Ids(AllNotes(db))) =>
       StoredNote(db, call.newId).ownerId = call.note.ownerId
  /\ call.op = "toggleCategoryPublish" =>
       /\ call.newId \in Ids(AllCategories(db)) =>
            StoredCategory(db, call.newId).ownerId = call.category.ownerId
       /\ \A e \in call.migratedNoteIds :
            e[2] \in Ids(AllNotes(db)) =>
              StoredNote(db, e[2]).ownerId = StoredNote(call.pre, e[1]).ownerId

\* C16: every store operation that mutates a note sets its updatedAt to the
\* time of the write: after a saveNote update, a migrateNotesToCategory, a
\* toggleNotePublish or a toggleCategoryPublish, each note the call wrote has
\* an updatedAt later than the note had before.
C16_MutationsRefreshUpdatedAt ==
  (Idle /\ call.status = "ok") =>
    /\ (call.op = "saveNote" /\ call.note.id # NoId) =>
         /\ StoredNote(db, call.note.id).updatedAt = now
         /\ StoredNote(db, call.note.id).updatedAt > StoredNote(call.pre, call.note.id).updatedAt
    /\ call.op = "migrateNotesToCategory" =>
         \A n \in NotesOfCategory(call.pre.userNotes[call.userId], call.fromCatId) :
           StoredNote(db, n.id).updatedAt > n.updatedAt
    /\ call.op = "toggleNotePublish" =>
         StoredNote(db, call.newId).updatedAt > call.note.updatedAt
    /\ call.op = "toggleCategoryPublish" =>
         \A e \in call.migratedNoteIds :
           StoredNote(db, e[2]).updatedAt > StoredNote(call.pre, e[1]).updatedAt

\* the source and the destination collections of the toggle in `call`
SourceNotes(d) == IF call.makePublic THEN d.userNotes[call.userId] ELSE d.publicNotes
DestinationNotes(d) == IF call.makePublic THEN d.publicNotes ELSE d.userNotes[call.userId]
SourceCategories(d) ==
  IF call.makePublic THEN d.userCategories[call.userId] ELSE d.publicCategories
DestinationCategories(d) ==
  IF call.makePublic THEN d.publicCategories ELSE d.userCategories[call.userId]

\* a toggleCategoryPublish that moves its category is under way or has ended
MovingCategory ==
  /\ call.op = "toggleCategoryPublish"
  /\ InSource(call.category.isPublic, call.makePublic)
  /\ call.category.id \in Ids(SourceCategories(call.pre))

\* the note has its copy in the destination
Copied(n) ==
  \E e \in call.migratedNoteIds : e[1] = n.id /\ e[2] \in Ids(DestinationNotes(db))

\* C18: in the toggles a source document is deleted only after its copy has
\* been created, and toggleCategoryPublish deletes the source category only
\* after every note that references it has been copied; at every step, also
\* after a failure between two steps, each note and the category exist in at
\* least one partition.
C18_CopyBeforeDelete ==
  /\ (call.op = "toggleNotePublish" /\ call.note.id \in Ids(SourceNotes(call.pre))) =>
       (call.note.id \in Ids(SourceNotes(db)) \/ call.newId \in Ids(DestinationNotes(db)))
  /\ MovingCategory =>
       /\ call.category.id \in Ids(SourceCategories(db))
            \/ call.newId \in Ids(DestinationCategories(db))
       /\ \A n \in Referencing(call.pre, call.category.id) :
            n.id \in Ids(AllNotes(db)) \/ Copied(n)
       /\ call.category.id \notin Ids(SourceCategories(db)) =>
            \A n \in Referencing(call.pre, call.category.id) : Copied(n)

\* toggleCategoryPublish has failed before it returned
FailedMovingCategory == MovingCategory /\ Idle /\ call.status = "failed"

\* the notes of the category that the call was to move
NotesToMove == NotesOfCategory(SourceNotes(call.pre), call.category.id)

\* C19: when toggleCategoryPublish fails partway through its notes, the
\* source category still exists, every note already processed is in the
\* destination under the new category id, every note not yet processed is in
\* the source under the old category id, both category ids resolve, and no
\* note has been lost.
C19_PartialFailureLeavesBothHalves ==
  FailedMovingCategory =>
    /\ call.category.id \in Ids(SourceCategories(db))
    /\ call.newId \in Ids(DestinationCategories(db))
    /\ \A e \in call.migratedNoteIds :
         /\ e[2] \in Ids(DestinationNotes(db))
         /\ StoredNote(db, e[2]).categoryId = call.newId
    /\ \A n \in NotesToMove :
         (\A e \in call.migratedNoteIds : e[1] # n.id) =>
           (n \in SourceNotes(db) /\ n.categoryId = call.category.id)
    /\ \A n \in NotesToMove : n \in SourceNotes(db) \/ Copied(n)

\* the call failed with one note moved and another not yet touched
C19_Witness ==
  /\ FailedMovingCategory
  /\ Cardinality(call.migratedNoteIds) = 1
  /\ Cardinality(NotesToMove) = 2
  /\ \E n \in NotesToMove : ~Copied(n) /\ n \in SourceNotes(db)

\* toggleCategoryPublish has completed as the repetition of an attempt that
\* failed: same caller, same category, same direction
RerunAfterFailure ==
  /\ MovingCategory /\ Idle /\ call.status = "ok"
  /\ call.after.op = "toggleCategoryPublish" /\ call.after.status = "failed"
  /\ call.after.userId = call.userId
  /\ call.after.categoryId = call.category.id
  /\ call.after.makePublic = call.makePublic
  /\ call.category.id \in Ids(SourceCategories(call.after.pre))

\* C20: toggleCategoryPublish repeated after a failure ends in the state an
\* uninterrupted run reaches, up to the fresh ids: one destination category
\* more than before the first attempt, each note of the category exactly
\* once in the destination under that category, nothing left in the source.
C20_RerunCompletesTheMove ==
  RerunAfterFailure =>
    LET before == call.after.pre
        moved == NotesOfCategory(SourceNotes(before), call.category.id)
    IN /\ Cardinality(DestinationCategories(db))
            = Cardinality(DestinationCategories(before)) + 1
       /\ Cardinality(DestinationNotes(db))
            = Cardinality(DestinationNotes(before)) + Cardinality(moved)
       /\ \A n \in DestinationNotes(db) :
            n.id \notin Ids(DestinationNotes(before)) => n.categoryId = call.newId
       /\ call.category.id \notin Ids(SourceCategories(db))
       /\ NotesOfCategory(SourceNotes(db), call.category.id) = {}

\* C13: handleDeleteCategory on a category that has no other category as
\* fallback is refused: deleteCategory is not called, and the category stays
\* in the in-memory categories and in the store.
C13_LastCategoryDeletionRefused ==
  (handler.op = "handleDeleteCategory" /\ handler.fallback = NoId) =>
    /\ "deleteCategory" \notin Range(handler.stores)
    /\ handler.id \in Ids(Range(categories))
    /\ db.userCategories[user] = handler.pre.userCategories[user]

C17_FailedFetchGivesEmptyList ==
  /\ handler.op = "loadData" =>
       /\ ~isLoadingData /\ handler.status = "ok"
       /\ handler.failed \cap {"privateCategories", "publicCategories"} # {}
            => categories = <<>>
       /\ handler.failed \cap {"privateNotes", "publicNotes"} # {} => notes = <<>>
  /\ handler.op = "loadPublicData" =>
       /\ ~isLoadingData /\ handler.status = "ok"
       /\ "publicCategories" \in handler.failed => categories = <<>>
       /\ "publicNotes" \in handler.failed => notes = <<>>

\* a load step in which only the query of the public notes was rejected, over
\* a store that holds private notes of the user: the notes array is empty
C17_Witness ==
  /\ handler.op = "loadData" /\ handler.failed = {"publicNotes"}
  /\ db.userNotes[user] # {}
  /\ notes = <<>> /\ categories # <<>>

\* the key the settings hold for a provider kind
SettingsKey(settings, type) ==
  IF type = "gemini" THEN settings.geminiApiKey ELSE settings.chatgptApiKey

\* C24: after any sequence of configure calls the registry holds exactly the
\* provider kinds whose key in the most recent settings is non-empty after
\* trimming, one provider per kind, each with the key of those settings; a
\* blank or missing key registers nothing and configure raises no error.
C24_RegistryMatchesLastSettings ==
  /\ Registered = {t \in ProviderTypes : Len(Trim(SettingsKey(ai.settings, t))) > 0}
  /\ Len(providers) = Cardinality(Registered)
  /\ \A i \in 1..Len(providers) :
       providers[i].apiKey = SettingsKey(ai.settings, providers[i].type)
  /\ ai.op = "configure" => ai.error = "none"

\* configure with a blank gemini key and a chatgpt key: only chatgpt is
\* registered
C24_Witness ==
  /\ ai.op = "configure"
  /\ ai.settings.geminiApiKey = <<" ">>
  /\ Registered = {"chatgpt"}

\* C25: getPreferredProvider returns the registered provider of the preferred
\* kind when that kind is registered, else the first registered provider when
\* the registry is not empty, and none exactly when the registry is empty; it
\* never yields a provider that is not registered.
C25_PreferredElseFirstElseNone ==
  /\ preferredProvider \in Registered =>
       /\ GetPreferredProvider \in 1..Len(providers)
       /\ providers[GetPreferredProvider].type = preferredProvider
  /\ (preferredProvider \notin Registered /\ Len(providers) > 0) =>
       GetPreferredProvider = 1
  /\ GetPreferredProvider = 0 <=> providers = <<>>
  /\ GetPreferredProvider \in 0..Len(providers)

\* the preferred kind is chatgpt, whose key was removed, and gemini is
\* registered
C25_Witness ==
  /\ preferredProvider = "chatgpt"
  /\ Registered = {"gemini"}
  /\ GetPreferredProvider = 1

\* no callable is in flight and no trigger is waiting
AllCompleted ==
  \A a \in Accounts : fn[a].pc = "done" /\ created[a].pc = "none"

\* C23: after any completed sequence of setAdminRole, setupInitialAdmin,
\* createUserProfile (callable and client-side) and the profile-created
\* trigger, each account's profile isAdmin equals its admin custom claim.
C23_ProfileIsAdminEqualsClaim ==
  AllCompleted =>
    \A a \in Accounts : (profiles[a].exists /\ profiles[a].isAdmin) = claims[a]

\* what the claim compares of a note and of a category
NoteKey(n) == [id |-> n.id, categoryId |-> n.categoryId, isPublic |-> n.isPublic]
CategoryKey(c) == [id |-> c.id, isPublic |-> c.isPublic]

\* the in-memory snapshot has the ids, and per id the categoryId and isPublic,
\* that fetchNotes and fetchCategories return from the store d
SnapshotMatches(ns, cs, d, u) ==
  /\ {NoteKey(n) : n \in Range(ns)} = {NoteKey(n) : n \in Range(FetchNotesArray(d, u, {}))}
  /\ {CategoryKey(c) : c \in Range(cs)}
       = {CategoryKey(c) : c \in Range(FetchCategoriesArray(d, u, {}))}

\* the handlers that change the store
MutationHandlers ==
  {"handleSaveNote", "handleDeleteNote", "handleDeleteNoteDirectly", "handleSaveCategory",
   "handleDeleteCategory", "onTogglePublish", "onToggleCategoryPublish"}

\* C21: a mutation handler that starts from a snapshot that matches the store
\* and completes without error leaves a snapshot that matches the store: the
\* same ids, and per id the same categoryId and isPublic, as fetchNotes and
\* fetchCategories return.
C21_SnapshotMatchesStore ==
  [][(/\ SignedIn /\ handled' = handled + 1
      /\ handler'.op \in MutationHandlers /\ handler'.status = "ok"
      /\ SnapshotMatches(notes, categories, db, user))
     => SnapshotMatches(notes', categories', db', user)]_vars

\* the handlers that make one store call
SingleCallHandlers ==
  {"handleSaveNote", "handleDeleteNote", "handleDeleteNoteDirectly", "handleSaveCategory",
   "onSaveHighlights", "onTogglePublish", "onToggleCategoryPublish"}

\* the documents a step has added to a collection
Added(before, after) == {doc \in after : doc.id \notin Ids(before)}

PublicPartition(d) == <<d.publicNotes, d.publicCategories>>

\* C30: in a session that is not an admin's, the guest session included, no
\* handler creates, changes or deletes a document of the public partition,
\* and the guest session calls no store mutation at all.
C30_NonAdminLeavesPublicPartition ==
  /\ (user # Undef /\ ~IsAdmin(user)) => PublicPartition(db) = PublicPartition(handler.pre)
  /\ user = Guest => db = handler.pre /\ handled = 0 /\ handler.op = "loadPublicData"

\* u2, who is not an admin, has saved an edit of a public note: the call was
\* refused and the public note is as it was
C30_Witness ==
  /\ user = "u2" /\ handler.op = "handleSaveNote" /\ handler.status = "failed"
  /\ activeNote.isPublic /\ activeNote.id \in Ids(db.publicNotes)
  /\ db = handler.pre

\* C29: one editing session for a new note, from the mount of the note
\* editor to its replacement by another view, creates at most one document
\* and one snapshot entry, however often Save is pressed.
C29_OneDocumentPerEditingSession ==
  (view = "NOTE_EDITOR" /\ activeNote = NoNote) => editorCreates <= 1

\* the content the store holds for the note of this id; Undef without one
StoredContent(d, id) ==
  IF id \in Ids(AllNotes(d)) THEN StoredNote(d, id).content ELSE Undef

\* the DOM holds an edit of the note shown that the store does not hold
UnsavedEdits ==
  /\ innerHTML.of = activeNote.id
  /\ \E e \in edits : e.id = activeNote.id /\ e.text = innerHTML.text
  /\ StoredContent(db, activeNote.id) # innerHTML.text

C27_SavesWriteTheShownNotesContent ==
  \A w \in written : w.status = "ok" => w.id = w.of

\* nothing of the viewer is pending: no debounce timer, no save in flight
Quiescent == saves = <<>> /\ ~saveTimeout.set

\* the last highlight edit made to the note that has this id now
LastEdits == {e \in edits : \A f \in edits : f.id = e.id => f.n <= e.n}

\* C28: with no store call rejected, once the viewer has nothing pending
\* every note holds in the store, under its current id, the content of the
\* last highlight edit made to it: no edit is dropped, whether the viewer
\* was left, the note's visibility toggled, or a save was in flight.
C28_NoEditIsDropped ==
  (Quiescent /\ \A w \in written : w.status # "rejected") =>
    \A e \in LastEdits : StoredContent(db, e.id) = e.text
====
